---------------------------- MODULE Spec2Model ----------------------------
(***************************************************************************)
(* Model of the animation delivery pipeline of the holographic chatbot:    *)
(*   - FanAPIClient (fan/api_client.py): send_frame, send_frame_from_file, *)
(*     stream_frames, test_connection and the frames_sent counter;         *)
(*   - HolographicChatbot._animate_response (main.py): the frame count;    *)
(*   - FrameConverter (fan/frame_converter.py): the frame geometry of      *)
(*     resize_frame and optimize_for_display.                              *)
(*                                                                         *)
(* Time is counted in ticks of 1/60 s, so that 0.5 s and 1/frame_rate are  *)
(* whole numbers for the frame rates of the model.                         *)
(***************************************************************************)
EXTENDS Integers, Sequences, FiniteSets, TLC

(***************************************************************************)
(* Bounds of the model                                                     *)
(***************************************************************************)
MaxFrames == 2      \* longest frame list handed to stream_frames
MaxRetry == 4       \* largest retry_count handed to send_frame
MaxSent == 2        \* no new call starts once frames_sent reached this
ReqTime == 3        \* ticks one upload request takes
MaxDur == 20        \* durations go up to MaxDur * 0.05 s
MaxDimK == 4        \* input frames go up to 128 * MaxDimK pixels a side
MaxPhon == 3        \* longest phoneme string, beside the docstring's example
MaxCalls == 3       \* get_response calls after a system prompt
MaxKeyExtra == 1    \* API keys have up to 20 + MaxKeyExtra characters
MaxTurns == 1       \* inputs an interactive session hands to process_user_input

(***************************************************************************)
(* Program constants                                                       *)
(***************************************************************************)
DefaultRetry == 3        \* send_frame(frame, retry_count=3)
BackoffStep == 30        \* 0.5 s, in ticks
DefaultFrameRate == 30   \* Settings.fan_frame_rate default
DefaultDuration == 300   \* _animate_response(text, duration=3.0), in 1/100 s

Statuses == {200, 201, 500}          \* status codes the device answers with
FrameKinds == {"rgb", "malformed"}   \* uint8 HxWx3 array / array PIL rejects
FrameRateArgs == {0, 2}              \* 0: frame_rate None or 0 (falsy)
Paths == {"missing", "unreadable", "png"}
PathArgs == {"None"} \cup Paths

\* Settings.fan_frame_rate: int, ge=1, le=60
ConfigRates == 1..60
\* durations handed to _animate_response, in 1/100 s
Durations == {5 * d : d \in 0..MaxDur} \cup {DefaultDuration}
\* sides of the frames handed to the frame converter, in pixels
InDims == {1, 100, 300} \cup {128 * k : k \in 1..MaxDimK}
\* Settings.fan_resolution_width / fan_resolution_height (ge=128, le=1024)
DefaultTarget == <<256, 256>>
Targets == {DefaultTarget, <<128, 256>>, <<1024, 128>>}
\* the size argument of resize_frame; <<>> is None
SizeArgs == {<<>>, <<64, 32>>, <<640, 480>>}

\* what one session.post can do: answer with a status, or raise
\* requests.RequestException
Outcomes == {[fault |-> FALSE, status |-> s] : s \in Statuses}
              \cup {[fault |-> TRUE, status |-> 0]}

VARIABLES
    frames_sent,        \* FanAPIClient.frames_sent
    call,               \* the client method the caller invoked last
    result,             \* its outcome: [kind, v, n]
    sf_pc,              \* send_frame: "off", "loop", "backoff", "ret"
    sf_frame,           \* send_frame: the frame argument
    sf_idx,             \* position of that frame in the streamed list (1 if none)
    retry_count,        \* send_frame: the retry_count argument
    attempt,            \* send_frame: the loop variable
    sf_result,          \* send_frame: "none", "True", "FanAPIError"
    status_code,        \* response.status_code of the last request (0: none)
    ff_pc,              \* send_frame_from_file: "off", "run", "ret"
    ff_path,            \* send_frame_from_file: the file_path argument
    ff_result,          \* "none", "True", "False", "FanAPIError", "OSError"
    st_pc,              \* stream_frames: "off", "loop", "send", "pace"
    frames,             \* stream_frames: the frames argument
    i,                  \* stream_frames: number of frames the loop went through
    successful_frames,  \* stream_frames: local counter
    frame_delay,        \* stream_frames: 1.0 / frame_rate, in ticks
    sleep_time,
    st_base,            \* stream_frames: frames_sent when the call was entered
         \* stream_frames: local of the pacing computation
    elapsed,            \* ticks since start_time (or since the call began)
    tc_pc,              \* test_connection: "off", "wait"
    ok200,              \* history: number of requests answered with 200
    log,                \* history: requests and sleeps of the current call
    fan_frame_rate,     \* Settings.fan_frame_rate
    an_pc,              \* _animate_response: "off", "generate", "stream", "done"
    duration,           \* _animate_response: the duration argument, in 1/100 s
    num_frames,         \* _animate_response: local
    an_frames,          \* _animate_response: the local list `frames`
    target_size,        \* FrameConverter.target_size, <<width, height>>
    cv_pc,              \* converter: "off", "done" (optimize), "resized"
    cv_in,              \* converter call: the frame argument
    cv_args,            \* converter call: the other arguments
    cv_out,             \* converter call: what it ended with
    cv_steps,           \* optimize_for_display: the steps it ran, in order
    cv_region,          \* crop_to_square: x_start, y_start of the region
    cv_first,           \* what the optimize_for_display call before ended with
    ph_pc,              \* analyzer: "off", "visemes", "lookup", "shape", "analyzed"
    phonemes,           \* the phoneme string, a sequence of characters
    visemes,            \* the list phonemes_to_visemes returned
    ph_duration,        \* analyze_text_for_animation: duration, in 1/100 s
    ph_result,          \* analyze_text_for_animation: what it ended with
    ph_key,             \* the symbol looked up in VISEME_MAP
    ph_viseme,          \* the viseme looked up / the viseme argument
    ph_shape,           \* the mouth shape get_mouth_shape_for_viseme returned
    an_i,               \* _animate_response: the loop index i
    an_error,           \* _animate_response: the exception it raised, or "none"
    an_streams,         \* how often the session invoked stream_frames
    an_streamed,        \* the frame list the session handed to stream_frames
    enable_audio,       \* settings.enable_audio
    enable_fan_streaming, \* settings.enable_fan_streaming
    tu_pc,              \* process_user_input: "off", "audio", "animate",
                        \* "animating", "return", "done"
    tu_args,            \* its arguments [synthesize_audio, animate]
    response,           \* its local `response`
    tu_gen,             \* how get_response ended: "none", "ok", "failed"
    tu_audio,           \* the audio step: "none", "skipped", "ok", "failed"
    tu_anim,            \* the animation step: "none", "skipped", "ok", "failed"
    tu_result,          \* what process_user_input ended with
    conversation_history, \* ChatGPTClient.conversation_history
    gp_pc,              \* ChatGPTClient: "new", "ready" (a system prompt is set)
    gp_calls,           \* the get_response calls since the system prompt
    gp_result,          \* what the last get_response ended with
    kd_pc,              \* Settings: "off", "rejected", "dumped"
    api_key,            \* openai_api_key of a Settings object
    key_other,          \* openai_api_key of a second Settings object
    masked,             \* model_dump_safe()["openai_api_key"] of the first
    masked_other,       \* model_dump_safe()["openai_api_key"] of the second
    im_pc,              \* interactive_mode: "off", "loop", "exited"
    im_exit,            \* why its loop was left: "none", "quit", "interrupt"
    intr,               \* the sleep an interrupt arrived in: "none",
                        \* "backoff", "pace"
    im_turns,           \* how many inputs went to process_user_input
    cleanups,           \* how often cleanup() ran
    renderer_closed,    \* renderer.close() was called
    session_closed      \* fan_client.close() was called

clientVars == <<frames_sent, call, result, status_code, sf_pc, sf_frame, sf_idx, retry_count,
                attempt, sf_result, ff_pc, ff_path, ff_result, st_pc, frames, i,
                successful_frames, frame_delay, sleep_time, st_base, elapsed, tc_pc,
                ok200, log>>

animVars == <<an_pc, duration, num_frames, an_frames, an_i, an_error,
              an_streams, an_streamed>>
convVars == <<target_size, cv_pc, cv_in, cv_args, cv_out, cv_steps, cv_region,
              cv_first>>

phonVars == <<ph_pc, phonemes, visemes, ph_duration, ph_result, ph_key,
              ph_viseme, ph_shape>>

turnVars == <<enable_audio, enable_fan_streaming, tu_pc, tu_args, response,
              tu_gen, tu_audio, tu_anim, tu_result>>

chatVars == <<conversation_history, gp_pc, gp_calls, gp_result>>
keyVars == <<kd_pc, api_key, key_other, masked, masked_other>>
modeVars == <<im_pc, im_exit, intr, im_turns, cleanups, renderer_closed,
              session_closed>>
otherVars == <<chatVars, keyVars, modeVars>>

vars == <<clientVars, fan_frame_rate, animVars, convVars, phonVars, turnVars,
          otherVars>>

sfVars == <<sf_pc, sf_frame, sf_idx, retry_count, attempt, sf_result>>
ffVars == <<ff_pc, ff_path, ff_result>>
stVars == <<st_pc, frames, i, successful_frames, frame_delay, sleep_time,
            st_base>>

(***************************************************************************)
(* Helpers                                                                 *)
(***************************************************************************)
Max(a, b) == IF a >= b THEN a ELSE b

NoResult == [kind |-> "none", v |-> "", n |-> 0]
Returned(v) == [kind |-> "return", v |-> v, n |-> 0]
ReturnedInt(n) == [kind |-> "return", v |-> "int", n |-> n]
Raised(v) == [kind |-> "raise", v |-> v, n |-> 0]

Event(e, f, k, r, t) == [e |-> e, frame |-> f, k |-> k, r |-> r, t |-> t]

\* Image.fromarray(frame) followed by image.save(buffer, format="PNG")
Serializable(frame) == frame = "rgb"

\* how the history names what a request met
Met(o) == IF o.fault THEN "fault" ELSE IF o.status = 200 THEN "200" ELSE "non200"

SeqsUpTo(S, n) == UNION {[1..m -> S] : m \in 0..n}

(***************************************************************************)
(* FanAPIClient.send_frame                                                 *)
(***************************************************************************)
\* a slip: every 2xx status taken for success
IsSuccessAny2xx(status) == status \in 200..299

\* if response.status_code == 200
IsSuccess(status) == status = 200

\* a slip: the counter is not advanced
CountSentForgotten(c) == c

\* self.frames_sent += 1
CountSent(c) == c + 1

\* a slip: the loop runs one iteration too many
MoreAttemptsOffByOne(a, n) == a + 1 <= n

\* for attempt in range(retry_count): is there an iteration after `a`
MoreAttempts(a, n) == a + 1 < n

\* a slip: the loop goes on after an error that is no transport error
OtherErrorEndsLoopNever(exc) == FALSE

\* except Exception as e: ... break
OtherErrorEndsLoop(exc) == TRUE

\* except requests.RequestException: if attempt < retry_count - 1: sleep
\* (the non-200 path has no sleep: it falls through to the next iteration)
SleepsAfter(o, a, n) == o.fault /\ a < n - 1

\* time.sleep(0.5 * (attempt + 1))
BackoffTime(a) == BackoffStep * (a + 1)

\* the state send_frame is entered in
EnterSendFrame(frame, idx, n) ==
    /\ sf_frame' = frame
    /\ sf_idx' = idx
    /\ retry_count' = n
    /\ attempt' = 0
    /\ status_code' = 0
    /\ IF n > 0
         THEN sf_pc' = "loop" /\ sf_result' = "none"
         ELSE sf_pc' = "ret" /\ sf_result' = "FanAPIError"

\* the caller invokes send_frame(frame, retry_count)
CallSendFrame ==
    /\ result.kind # "none"
    /\ frames_sent < MaxSent
    /\ \E frame \in FrameKinds, n \in 0..MaxRetry :
          EnterSendFrame(frame, 1, n)
    /\ call' = "send_frame"
    /\ result' = NoResult
    /\ elapsed' = 0
    /\ log' = <<>>
    /\ UNCHANGED <<frames_sent, ok200, ffVars, stVars, tc_pc>>
    /\ UNCHANGED <<fan_frame_rate, otherVars, animVars, convVars, phonVars, turnVars>>

\* one iteration of the retry loop
SendFrameAttempt ==
    /\ sf_pc = "loop"
    /\ IF ~Serializable(sf_frame)
         THEN \* except Exception: break; then raise FanAPIError
              /\ IF OtherErrorEndsLoop("Exception") \/ ~MoreAttempts(attempt, retry_count)
                   THEN /\ sf_pc' = "ret"
                        /\ sf_result' = "FanAPIError"
                        /\ UNCHANGED attempt
                   ELSE /\ attempt' = attempt + 1
                        /\ UNCHANGED <<sf_pc, sf_result>>
              /\ UNCHANGED <<frames_sent, ok200, elapsed, log, status_code>>
         ELSE \E o \in Outcomes :
              /\ status_code' = o.status
              /\ log' = Append(log, Event("post", sf_idx, attempt + 1, Met(o), ReqTime))
              /\ elapsed' = elapsed + ReqTime
              /\ ok200' = IF Met(o) = "200" THEN ok200 + 1 ELSE ok200
              /\ IF ~o.fault /\ IsSuccess(o.status)
                   THEN /\ frames_sent' = CountSent(frames_sent)
                        /\ sf_pc' = "ret"
                        /\ sf_result' = "True"
                        /\ UNCHANGED attempt
                   ELSE /\ UNCHANGED frames_sent
                        /\ IF SleepsAfter(o, attempt, retry_count)
                             THEN /\ sf_pc' = "backoff"
                                  /\ UNCHANGED <<attempt, sf_result>>
                             ELSE IF MoreAttempts(attempt, retry_count)
                                    THEN /\ attempt' = attempt + 1
                                         /\ UNCHANGED <<sf_pc, sf_result>>
                                    ELSE /\ sf_pc' = "ret"
                                         /\ sf_result' = "FanAPIError"
                                         /\ UNCHANGED attempt
    /\ UNCHANGED <<call, result, sf_frame, sf_idx, retry_count, ffVars, stVars, tc_pc>>
    /\ UNCHANGED <<fan_frame_rate, otherVars, animVars, convVars, phonVars, turnVars>>

\* time.sleep(0.5 * (attempt + 1)); continue
SendFrameBackoff ==
    /\ sf_pc = "backoff"
    /\ log' = Append(log, Event("backoff", sf_idx, attempt + 1, "", BackoffTime(attempt)))
    /\ elapsed' = elapsed + BackoffTime(attempt)
    /\ attempt' = attempt + 1
    /\ sf_pc' = "loop"
    /\ UNCHANGED <<frames_sent, ok200, call, result, sf_frame, sf_idx, retry_count,
                   sf_result, ffVars, stVars, tc_pc>>
    /\ UNCHANGED <<status_code, fan_frame_rate, otherVars, animVars, convVars, phonVars, turnVars>>

\* send_frame hands its outcome to the caller
SendFrameReturn ==
    /\ call = "send_frame"
    /\ sf_pc = "ret"
    /\ result' = IF sf_result = "True" THEN Returned("True") ELSE Raised(sf_result)
    /\ sf_pc' = "off"
    /\ UNCHANGED <<frames_sent, ok200, call, sf_frame, sf_idx, retry_count, attempt,
                   sf_result, ffVars, stVars, tc_pc, elapsed, log>>
    /\ UNCHANGED <<status_code, fan_frame_rate, otherVars, animVars, convVars, phonVars, turnVars>>

(***************************************************************************)
(* FanAPIClient.send_frame_from_file                                       *)
(***************************************************************************)
\* file_path.exists()
Exists(path) == path # "missing"

\* open(file_path, "rb") succeeds (it raises OSError on a directory or a
\* file the process may not read)
Opens(path) == path = "png"

\* the whole body of send_frame_from_file: what it ends with, given what
\* the single request does
FromFileResult(path, o) ==
    IF ~Exists(path) THEN "FanAPIError"
    ELSE IF ~Opens(path) THEN "OSError"
    ELSE IF o.fault THEN "FanAPIError"
    ELSE IF IsSuccess(o.status) THEN "True"
    ELSE "False"

\* does send_frame_from_file get as far as session.post
FromFilePosts(path) == Exists(path) /\ Opens(path)

EnterSendFrameFromFile(path) ==
    /\ ff_path' = path
    /\ ff_pc' = "run"
    /\ ff_result' = "none"
    /\ status_code' = 0

\* the caller invokes send_frame_from_file(file_path)
CallSendFrameFromFile ==
    /\ result.kind # "none"
    /\ frames_sent < MaxSent
    /\ \E path \in Paths : EnterSendFrameFromFile(path)
    /\ call' = "send_frame_from_file"
    /\ result' = NoResult
    /\ elapsed' = 0
    /\ log' = <<>>
    /\ UNCHANGED <<frames_sent, ok200, sfVars, stVars, tc_pc>>
    /\ UNCHANGED <<fan_frame_rate, otherVars, animVars, convVars, phonVars, turnVars>>

\* the body of send_frame_from_file
SendFrameFromFileBody ==
    /\ ff_pc = "run"
    /\ \E o \in Outcomes :
         /\ ff_result' = FromFileResult(ff_path, o)
         /\ IF FromFilePosts(ff_path)
              THEN /\ log' = Append(log, Event("post", 1, 1, Met(o), ReqTime))
                   /\ status_code' = o.status
                   /\ elapsed' = elapsed + ReqTime
                   /\ ok200' = IF Met(o) = "200" THEN ok200 + 1 ELSE ok200
              ELSE UNCHANGED <<log, elapsed, ok200, status_code>>
         /\ frames_sent' = IF FromFileResult(ff_path, o) = "True"
                             THEN CountSent(frames_sent) ELSE frames_sent
    /\ ff_pc' = "ret"
    /\ UNCHANGED <<call, result, ff_path, sfVars, stVars, tc_pc>>
    /\ UNCHANGED <<fan_frame_rate, otherVars, animVars, convVars, phonVars, turnVars>>

\* send_frame_from_file hands its outcome to the caller
SendFrameFromFileReturn ==
    /\ call = "send_frame_from_file"
    /\ ff_pc = "ret"
    /\ result' = IF ff_result \in {"True", "False"}
                   THEN Returned(ff_result) ELSE Raised(ff_result)
    /\ ff_pc' = "off"
    /\ UNCHANGED <<frames_sent, ok200, call, ff_path, ff_result, sfVars, stVars,
                   tc_pc, elapsed, log>>
    /\ UNCHANGED <<status_code, fan_frame_rate, otherVars, animVars, convVars, phonVars, turnVars>>

(***************************************************************************)
(* FanAPIClient.test_connection                                            *)
(***************************************************************************)
\* except FanAPIError as e: return False
TestCatches(exc) == exc = "FanAPIError"

\* what test_connection ends with, given what the call it made ended with
TestOutcome(r) ==
    IF r = "True" THEN Returned("True")
    ELSE IF r = "False" THEN Returned("False")
    ELSE IF TestCatches(r) THEN Returned("False")
    ELSE Raised(r)

\* the caller invokes test_connection(test_image_path)
CallTestConnection ==
    /\ result.kind # "none"
    /\ frames_sent < MaxSent
    /\ \E path \in PathArgs :
         IF path = "None"
           THEN \* test_frame = self._create_test_frame(); self.send_frame(test_frame)
                /\ EnterSendFrame("rgb", 1, DefaultRetry)
                /\ UNCHANGED ffVars
           ELSE /\ EnterSendFrameFromFile(path)
                /\ UNCHANGED sfVars
    /\ call' = "test_connection"
    /\ tc_pc' = "wait"
    /\ result' = NoResult
    /\ elapsed' = 0
    /\ log' = <<>>
    /\ UNCHANGED <<frames_sent, ok200, stVars>>
    /\ UNCHANGED <<fan_frame_rate, otherVars, animVars, convVars, phonVars, turnVars>>

\* the call test_connection made has ended
TestConnectionReturn ==
    /\ call = "test_connection"
    /\ tc_pc = "wait"
    /\ \/ /\ sf_pc = "ret"
          /\ result' = TestOutcome(sf_result)
          /\ sf_pc' = "off"
          /\ UNCHANGED ff_pc
       \/ /\ ff_pc = "ret"
          /\ result' = TestOutcome(ff_result)
          /\ ff_pc' = "off"
          /\ UNCHANGED sf_pc
    /\ tc_pc' = "off"
    /\ UNCHANGED <<frames_sent, ok200, call, sf_frame, sf_idx, retry_count, attempt,
                   sf_result, ff_path, ff_result, stVars, elapsed, log>>
    /\ UNCHANGED <<status_code, fan_frame_rate, otherVars, animVars, convVars, phonVars, turnVars>>

(***************************************************************************)
(* FanAPIClient.stream_frames                                              *)
(***************************************************************************)
\* a slip: the frame_rate argument is used as it is given
EffectiveRateGiven(rate) == rate

\* frame_rate = frame_rate or self.settings.fan_frame_rate (None is 0 here)
EffectiveRate(rate) == IF rate # 0 THEN rate ELSE fan_frame_rate

\* what stands for the delay when 1.0 / 0 raises ZeroDivisionError
ZeroDivision == 0 - 1

\* frame_delay = 1.0 / frame_rate, in ticks
FrameDelay(rate) == IF rate = 0 THEN ZeroDivision ELSE 60 \div rate

\* sleep_time = max(0, frame_delay - elapsed)
SleepTime(delay, el) == Max(0, delay - el)

\* a slip: the handler around the frame is missing
StreamCatchesNothing(exc) == FALSE

\* except FanAPIError as e: ... continue
StreamCatches(exc) == exc = "FanAPIError"

\* a slip: a failed frame ends the loop (break instead of continue)
AfterFailureBreaks(j, n) == n

\* the loop position after the frame at position j (0-based) of n failed
AfterFailure(j, n) == j + 1

\* the caller invokes stream_frames(frames, frame_rate)
CallStreamFrames ==
    /\ result.kind # "none"
    /\ frames_sent < MaxSent
    /\ \E fs \in SeqsUpTo(FrameKinds, MaxFrames), rate \in FrameRateArgs :
         /\ frames' = fs
         /\ frame_delay' = FrameDelay(EffectiveRate(rate))
         /\ IF FrameDelay(EffectiveRate(rate)) = ZeroDivision
              THEN st_pc' = "off" /\ result' = Raised("ZeroDivisionError")
              ELSE st_pc' = "loop" /\ result' = NoResult
    /\ st_base' = frames_sent
    /\ successful_frames' = 0
    /\ i' = 0
    /\ sleep_time' = 0
    /\ call' = "stream_frames"
    /\ elapsed' = 0
    /\ log' = <<>>
    /\ UNCHANGED <<frames_sent, ok200, sfVars, ffVars, tc_pc>>
    /\ UNCHANGED <<status_code, fan_frame_rate, otherVars, animVars, convVars, phonVars, turnVars>>

\* top of `for i, frame in enumerate(frames)`: start_time = time.time() and
\* the call of self.send_frame(frame)
StreamSend ==
    /\ st_pc = "loop"
    /\ i < Len(frames)
    /\ elapsed' = 0
    /\ EnterSendFrame(frames[i + 1], i + 1, DefaultRetry)
    /\ log' = Append(log, Event("call", i + 1, 0, "", 0))
    /\ st_pc' = "send"
    /\ UNCHANGED <<frames_sent, ok200, call, result, ffVars, st_base, frames, i,
                   successful_frames, frame_delay, sleep_time, tc_pc>>
    /\ UNCHANGED <<fan_frame_rate, otherVars, animVars, convVars, phonVars, turnVars>>

\* send_frame has ended: count the frame and compute the pacing sleep, or
\* handle the exception
StreamAfterSend ==
    /\ st_pc = "send"
    /\ sf_pc = "ret"
    /\ sf_pc' = "off"
    /\ IF sf_result = "True"
         THEN /\ successful_frames' = successful_frames + 1
              /\ sleep_time' = SleepTime(frame_delay, elapsed)
              /\ log' = Append(log, Event("sent", i + 1, 0, "", elapsed))
              /\ IF SleepTime(frame_delay, elapsed) > 0
                   THEN st_pc' = "pace" /\ UNCHANGED i
                   ELSE st_pc' = "loop" /\ i' = i + 1
              /\ UNCHANGED result
         ELSE /\ log' = Append(log, Event("failed", i + 1, 0, "", elapsed))
              /\ UNCHANGED <<successful_frames, sleep_time>>
              /\ IF StreamCatches(sf_result)
                   THEN /\ i' = AfterFailure(i, Len(frames))
                        /\ st_pc' = "loop"
                        /\ UNCHANGED result
                   ELSE /\ result' = Raised(sf_result)
                        /\ st_pc' = "off"
                        /\ UNCHANGED i
    /\ UNCHANGED <<frames_sent, ok200, call, sf_frame, sf_idx, retry_count, attempt,
                   sf_result, ffVars, st_base, frames, frame_delay, tc_pc, elapsed>>
    /\ UNCHANGED <<status_code, fan_frame_rate, otherVars, animVars, convVars, phonVars, turnVars>>

\* time.sleep(sleep_time)
StreamPace ==
    /\ st_pc = "pace"
    /\ log' = Append(log, Event("pace", i + 1, 0, "", sleep_time))
    /\ i' = i + 1
    /\ st_pc' = "loop"
    /\ UNCHANGED <<frames_sent, ok200, call, result, sfVars, ffVars, st_base, frames,
                   successful_frames, frame_delay, sleep_time, tc_pc, elapsed>>
    /\ UNCHANGED <<status_code, fan_frame_rate, otherVars, animVars, convVars, phonVars, turnVars>>

\* return successful_frames
StreamReturn ==
    /\ st_pc = "loop"
    /\ i >= Len(frames)
    /\ result' = ReturnedInt(successful_frames)
    /\ st_pc' = "off"
    /\ UNCHANGED <<frames_sent, ok200, call, sfVars, ffVars, st_base, frames, i,
                   successful_frames, frame_delay, sleep_time, tc_pc, elapsed, log>>
    /\ UNCHANGED <<status_code, fan_frame_rate, otherVars, animVars, convVars, phonVars, turnVars>>

(***************************************************************************)
(* HolographicChatbot._animate_response                                    *)
(***************************************************************************)
\* int(x) for the quotient x = n / d of naturals: the fraction is dropped
IntOf(n, d) == n \div d

\* num_frames = int(self.settings.fan_frame_rate * duration)
\* (dur in 1/100 s; for the rates and durations of the model the float
\* product truncates to the same integer as the exact product)
NumFrames(rate, dur) == IntOf(rate * dur, 100)

\* a slip: the frames are numbered from 1
AngleFromOne(n, idx) == [num |-> 360 * (idx + 1), den |-> n]

\* angle = (360 / num_frames) * i, as the fraction num / den of degrees
Angle(n, idx) == [num |-> 360 * idx, den |-> n]

(***************************************************************************)
(* FrameConverter: the geometry of resize_frame and optimize_for_display.  *)
(* A frame is its shape [w, h]; a frame PIL cannot take has shape [0, 0].  *)
(***************************************************************************)
Abs(x) == IF x >= 0 THEN x ELSE -x

Ceil(n, d) == IF n % d = 0 THEN n \div d ELSE (n \div d) + 1

Shape(w, h) == [w |-> w, h |-> h, c |-> 3]

Malformed == Shape(0, 0)

\* a slip: the image is stretched to the size (resize in place of thumbnail)
ThumbnailStretched(f, size) == Shape(size[1], size[2])

\* Image.thumbnail(size): the size of the image afterwards.  The image is
\* never enlarged; it is shrunk to fit within size with the aspect ratio
\* w / h kept, the free side being the floor or the ceiling of its exact
\* value, whichever keeps the ratio closer (the floor on a tie), at least 1.
Thumbnail(f, size) ==
    LET x == size[1]
        y == size[2]
        w == f.w
        h == f.h
        xf == (y * w) \div h
        xc == Ceil(y * w, h)
        yf == (x * h) \div w
        yc == Ceil(x * h, w)
        newx == IF Abs(w * y - xf * h) <= Abs(w * y - xc * h) THEN xf ELSE xc
        newy == IF yf = 0 \/ Abs(w * yf - x * h) * yc <= Abs(w * yc - x * h) * yf
                  THEN yf ELSE yc
    IN  IF x >= w /\ y >= h THEN f
        ELSE IF x * h >= w * y THEN Shape(Max(newx, 1), y)
        ELSE Shape(x, Max(newy, 1))

\* a slip: width and height taken in numpy's order
ResizedSwapped(f, size) == Shape(size[2], size[1])

\* Image.resize(size)
Resized(f, size) == Shape(size[1], size[2])

Frame(f) == [ok |-> TRUE, frame |-> f]

\* FrameConverterError was raised
ConvError == [ok |-> FALSE, frame |-> Malformed]

\* resize_frame(frame, size, maintain_aspect)
ResizeFrame(f, size, maintain_aspect) ==
    IF f = Malformed THEN ConvError
    ELSE IF maintain_aspect THEN Frame(Thumbnail(f, size))
    ELSE Frame(Resized(f, size))

\* the maintain_aspect argument optimize_for_display resizes with: it calls
\* self.resize_frame(frame), so the default True
OptimizeKeepsAspect == TRUE

\* enhance_brightness, enhance_contrast, apply_sharpen: same shape
Enhanced(f) == f

\* brightness and contrast factors, in 1/100: 1.0 and the defaults 1.1, 1.2
Factors == {100, 110, 120}

\* the arguments optimize_for_display has by default
DefaultFactors == [brightness_factor |-> 120, contrast_factor |-> 110]

\* a slip: contrast is enhanced before brightness
PipelineContrastFirst(sharpen) ==
    <<"resize", "contrast", "brightness">> \o
        (IF sharpen THEN <<"sharpen">> ELSE <<>>)

\* the steps of optimize_for_display, in the order of its statements
Pipeline(sharpen) ==
    <<"resize", "brightness", "contrast">> \o
        (IF sharpen THEN <<"sharpen">> ELSE <<>>)

\* the factor a step is called with (0: the step has none)
FactorOf(op, args) ==
    IF op = "brightness" THEN args.brightness_factor
    ELSE IF op = "contrast" THEN args.contrast_factor
    ELSE 0

\* a slip: the factor argument is dropped and the default 1.2 is used
EnhanceFactorDefault(factor) == 120

\* the factor handed to enhancer.enhance(factor)
EnhanceFactor(factor) == factor

\* whether a step that succeeded altered the pixels: a resize that changed
\* the size, an enhancement by a factor other than 1.0 (enhance(1.0) is the
\* original image), the sharpen filter
StepChanges(op, factor, fin, fout) ==
    IF op = "resize" THEN fout # fin
    ELSE IF op \in {"brightness", "contrast"} THEN EnhanceFactor(factor) # 100
    ELSE TRUE

\* one step of the pipeline on frame f; `fails`: the step raises on its own
Step(op, f, size, factor, fails) ==
    LET out == IF fails THEN ConvError
               ELSE IF op = "resize" THEN ResizeFrame(f, size, OptimizeKeepsAspect)
               ELSE IF f = Malformed THEN ConvError
               ELSE Frame(Enhanced(f))
    IN  [op |-> op, in |-> f, out |-> out,
         changed |-> out.ok /\ StepChanges(op, factor, f, out.frame)]

\* the steps ops run one after the other, each on the frame the step before
\* returned, up to the first that raises; failAt: the position of a step
\* that raises on its own (0: none)
RECURSIVE RunSteps(_, _, _, _, _)
RunSteps(ops, f, size, args, failAt) ==
    IF ops = <<>> THEN <<>>
    ELSE LET st == Step(Head(ops), f, size, FactorOf(Head(ops), args), failAt = 1)
         IN  IF ~st.out.ok THEN <<st>>
             ELSE <<st>> \o RunSteps(Tail(ops), st.out.frame, size, args, failAt - 1)

\* what optimize_for_display ends with after the steps tr: the frame of the
\* last step, or FrameConverterError
PipelineResult(tr) == tr[Len(tr)].out

\* optimize_for_display(frame, brightness_factor, contrast_factor, sharpen)
OptimizeForDisplay(f, size, sharpen) ==
    PipelineResult(RunSteps(Pipeline(sharpen), f, size, DefaultFactors, 0))

\* no call of the converter was made yet
ConvIdle ==
    /\ cv_pc = "off"
    /\ cv_in = Shape(256, 256)
    /\ cv_args = [sharpen |-> TRUE, size |-> <<>>, maintain_aspect |-> TRUE,
                  brightness_factor |-> 120, contrast_factor |-> 110]
    /\ cv_out = Frame(Shape(256, 256))
    /\ cv_steps = <<>>
    /\ cv_region = [x_start |-> 0, y_start |-> 0]
    /\ cv_first = Frame(Shape(256, 256))

\* optimize_for_display(f, bf, cf, sharpen) from its first to its last line
OptimizeCall(f, bf, cf, sharpen, failAt) ==
    LET args == [sharpen |-> sharpen, size |-> <<>>,
                 maintain_aspect |-> OptimizeKeepsAspect,
                 brightness_factor |-> bf, contrast_factor |-> cf]
        tr == RunSteps(Pipeline(sharpen), f, target_size, args, failAt)
    IN  /\ cv_in' = f
        /\ cv_args' = args
        /\ cv_steps' = tr
        /\ cv_out' = PipelineResult(tr)

\* the caller invokes optimize_for_display
Optimize ==
    /\ cv_pc = "off"
    /\ \E w \in InDims, h \in InDims, sharpen \in BOOLEAN, bad \in BOOLEAN,
          bf \in Factors, cf \in Factors, failAt \in 0..4 :
         OptimizeCall(IF bad THEN Malformed ELSE Shape(w, h), bf, cf, sharpen, failAt)
    /\ cv_pc' = "done"
    /\ UNCHANGED <<clientVars, fan_frame_rate, otherVars, animVars, phonVars, turnVars,
                   target_size, cv_region, cv_first>>

\* the caller hands the frame it got back to optimize_for_display once more,
\* with the same arguments
OptimizeAgain ==
    /\ cv_pc = "done"
    /\ cv_out.ok
    /\ OptimizeCall(cv_out.frame, cv_args.brightness_factor,
                    cv_args.contrast_factor, cv_args.sharpen, 0)
    /\ cv_first' = cv_out
    /\ cv_pc' = "again"
    /\ UNCHANGED <<clientVars, fan_frame_rate, otherVars, animVars, phonVars, turnVars,
                   target_size, cv_region>>

\* a slip: the region starts at the top left corner
CropStartCorner(dim, min_dim) == 0

\* y_start = (height - min_dim) // 2, x_start = (width - min_dim) // 2
CropStart(dim, min_dim) == (dim - min_dim) \div 2

Min(a, b) == IF a <= b THEN a ELSE b

\* crop_to_square(frame): the region and the frame cut out of it
CropToSquare(f) ==
    IF f = Malformed THEN [out |-> ConvError, x_start |-> 0, y_start |-> 0]
    ELSE LET min_dim == Min(f.h, f.w)
         IN  [out |-> Frame(Shape(min_dim, min_dim)),
              x_start |-> CropStart(f.w, min_dim),
              y_start |-> CropStart(f.h, min_dim)]

\* the caller invokes crop_to_square(frame)
Crop ==
    /\ cv_pc = "off"
    /\ \E w \in InDims \cup {400, 600}, h \in InDims \cup {400, 600},
          bad \in BOOLEAN :
         LET f == IF bad THEN Malformed ELSE Shape(w, h)
             r == CropToSquare(f)
         IN  /\ cv_in' = f
             /\ cv_out' = r.out
             /\ cv_region' = [x_start |-> r.x_start, y_start |-> r.y_start]
    /\ cv_pc' = "cropped"
    /\ UNCHANGED <<clientVars, fan_frame_rate, otherVars, animVars, phonVars, turnVars,
                   target_size, cv_args, cv_steps, cv_first>>

(***************************************************************************)
(* HolographicChatbot._animate_response: the session                      *)
(***************************************************************************)
AnimOff ==
    /\ an_pc = "off"
    /\ duration = DefaultDuration
    /\ num_frames = 0
    /\ an_frames = <<>>
    /\ an_i = 0
    /\ an_error = "none"
    /\ an_streams = 0
    /\ an_streamed = <<>>

\* what one iteration of the loop can meet: generate_frame and
\* optimize_for_display succeed, generate_frame raises RendererError, or
\* optimize_for_display raises FrameConverterError
GenOutcomes == {"frame", "RendererError", "FrameConverterError"}

\* the frame generate_frame returns: the canvas of a 5 x 5 inch figure
Rendered == Shape(500, 500)

\* a slip: the loop body is wrapped in a handler that skips the frame
GenRaisesNever(err) == FALSE

\* the loop body has no handler: an exception leaves _animate_response
GenRaises(err) == err \in {"RendererError", "FrameConverterError"}

\* a slip: the first frame is left out (frames[1:])
StreamArgTail(fs) == Tail(fs)

\* the argument of self.fan_client.stream_frames(frames)
StreamArg(fs) == fs

\* what send_frame can do with a frame of the buffer
FrameKindOf(f) == IF f.frame = Malformed THEN "malformed" ELSE "rgb"

\* the first lines of _animate_response(text, duration)
EnterAnimateResponse(dur) ==
    /\ duration' = dur
    /\ num_frames' = NumFrames(fan_frame_rate, dur)
    /\ an_frames' = <<>>
    /\ an_i' = 0
    /\ an_error' = "none"
    /\ an_streams' = 0
    /\ an_streamed' = <<>>
    /\ an_pc' = "generate"

\* a caller invokes _animate_response(text, duration)
AnimateResponse ==
    /\ an_pc = "off"
    /\ tu_pc = "off"
    /\ \E dur \in Durations : EnterAnimateResponse(dur)
    /\ UNCHANGED <<clientVars, fan_frame_rate, otherVars, convVars, phonVars, turnVars>>

\* one iteration of `for i in range(num_frames)`: render, optimize, append
AnimGenerate ==
    /\ an_pc = "generate"
    /\ an_i < num_frames
    /\ \E out \in GenOutcomes :
         LET opt == OptimizeForDisplay(Rendered, target_size, TRUE)
         IN  IF out = "frame" /\ opt.ok
               THEN /\ an_frames' = Append(an_frames,
                          [angle |-> Angle(num_frames, an_i), frame |-> opt.frame])
                    /\ an_i' = an_i + 1
                    /\ UNCHANGED <<an_pc, an_error>>
               ELSE LET err == IF out = "frame" THEN "FrameConverterError" ELSE out
                    IN  IF GenRaises(err)
                          THEN /\ an_pc' = "raised"
                               /\ an_error' = err
                               /\ UNCHANGED <<an_frames, an_i>>
                          ELSE /\ an_i' = an_i + 1
                               /\ an_error' = err
                               /\ UNCHANGED <<an_pc, an_frames>>
    /\ UNCHANGED <<clientVars, fan_frame_rate, otherVars, duration, num_frames, an_streams,
                   an_streamed, convVars, phonVars, turnVars>>

\* the loop is over: `if frames:` self.fan_client.stream_frames(frames) is
\* entered (frame_rate is None), otherwise _animate_response returns
AnimDeliver ==
    /\ an_pc = "generate"
    /\ an_i >= num_frames
    /\ IF an_frames # <<>>
         THEN /\ an_pc' = "stream"
              /\ an_streams' = an_streams + 1
              /\ an_streamed' = StreamArg(an_frames)
              /\ frames' = [j \in 1..Len(StreamArg(an_frames)) |->
                              FrameKindOf(StreamArg(an_frames)[j])]
              /\ frame_delay' = FrameDelay(EffectiveRate(0))
              /\ IF FrameDelay(EffectiveRate(0)) = ZeroDivision
                   THEN st_pc' = "off" /\ result' = Raised("ZeroDivisionError")
                   ELSE st_pc' = "loop" /\ result' = NoResult
              /\ st_base' = frames_sent
              /\ successful_frames' = 0
              /\ i' = 0
              /\ sleep_time' = 0
              /\ call' = "stream_frames"
              /\ elapsed' = 0
              /\ log' = <<>>
              /\ UNCHANGED <<frames_sent, ok200, sfVars, ffVars, tc_pc, status_code>>
         ELSE /\ an_pc' = "done"
              /\ UNCHANGED <<clientVars, an_streams, an_streamed>>
    /\ UNCHANGED <<fan_frame_rate, otherVars, duration, num_frames, an_frames, an_i, an_error,
                   convVars, phonVars, turnVars>>

\* stream_frames has ended: _animate_response logs the count and returns,
\* or the exception of stream_frames leaves it
AnimStreamed ==
    /\ an_pc = "stream"
    /\ st_pc = "off"
    /\ result.kind # "none"
    /\ IF result.kind = "return"
         THEN an_pc' = "done" /\ UNCHANGED an_error
         ELSE an_pc' = "raised" /\ an_error' = result.v
    /\ UNCHANGED <<clientVars, fan_frame_rate, otherVars, duration, num_frames, an_frames, an_i,
                   an_streams, an_streamed, convVars, phonVars, turnVars>>

(***************************************************************************)
(* HolographicChatbot.process_user_input                                   *)
(***************************************************************************)
\* a response of the generator, and the string that stands in for it
ResponseText == "Hello!"
Apology == "I'm sorry, I'm having trouble thinking right now."

\* a slip: the handlers name FanAPIError instead of Exception
TurnCatchesFanErrors(exc) == exc = "FanAPIError"

\* a slip: bare `except:` handlers, which catch an interrupt too
TurnCatchesAll(exc) == TRUE

\* except Exception as e: every handler of process_user_input; a
\* KeyboardInterrupt is a BaseException and no Exception
TurnCatches(exc) == exc # "KeyboardInterrupt"

TurnOff ==
    /\ tu_pc = "off"
    /\ tu_args = [synthesize_audio |-> TRUE, animate |-> TRUE]
    /\ response = ""
    /\ tu_gen = "none"
    /\ tu_audio = "none"
    /\ tu_anim = "none"
    /\ tu_result = NoResult

\* process_user_input(user_input, animate, synthesize_audio) up to the
\* answer of self.chatgpt.get_response(user_input)
EnterProcessUserInput(synth, anim, fails) ==
    /\ tu_args' = [synthesize_audio |-> synth, animate |-> anim]
    /\ tu_gen' = IF fails THEN "failed" ELSE "ok"
    /\ IF ~fails
         THEN /\ response' = ResponseText
              /\ tu_pc' = "audio"
              /\ UNCHANGED tu_result
         ELSE IF TurnCatches("ChatGPTError")
           THEN /\ response' = Apology
                /\ tu_pc' = "audio"
                /\ UNCHANGED tu_result
           ELSE /\ tu_result' = Raised("ChatGPTError")
                /\ tu_pc' = "done"
                /\ UNCHANGED response

\* a caller invokes process_user_input
ProcessUserInput ==
    /\ tu_pc = "off"
    /\ an_pc = "off"
    /\ \E synth \in BOOLEAN, anim \in BOOLEAN, fails \in BOOLEAN :
         EnterProcessUserInput(synth, anim, fails)
    /\ UNCHANGED <<clientVars, fan_frame_rate, otherVars, animVars, convVars, phonVars,
                   enable_audio, enable_fan_streaming, tu_audio, tu_anim>>

\* if synthesize_audio and self.settings.enable_audio: synthesize(response)
TurnAudio ==
    /\ tu_pc = "audio"
    /\ IF tu_args.synthesize_audio /\ enable_audio
         THEN \E fails \in BOOLEAN :
                IF ~fails
                  THEN tu_audio' = "ok" /\ tu_pc' = "animate" /\ UNCHANGED tu_result
                  ELSE IF TurnCatches("SynthesizerError")
                    THEN /\ tu_audio' = "failed"
                         /\ tu_pc' = "animate"
                         /\ UNCHANGED tu_result
                    ELSE /\ tu_audio' = "failed"
                         /\ tu_result' = Raised("SynthesizerError")
                         /\ tu_pc' = "done"
         ELSE tu_audio' = "skipped" /\ tu_pc' = "animate" /\ UNCHANGED tu_result
    /\ UNCHANGED <<clientVars, fan_frame_rate, otherVars, animVars, convVars, phonVars,
                   enable_audio, enable_fan_streaming, tu_args, response, tu_gen,
                   tu_anim>>

\* if animate and self.settings.enable_fan_streaming:
\* self._animate_response(response) is entered, with the default duration
TurnAnimate ==
    /\ tu_pc = "animate"
    /\ IF tu_args.animate /\ enable_fan_streaming
         THEN /\ EnterAnimateResponse(DefaultDuration)
              /\ tu_pc' = "animating"
              /\ UNCHANGED tu_anim
         ELSE /\ tu_anim' = "skipped"
              /\ tu_pc' = "return"
              /\ UNCHANGED animVars
    /\ UNCHANGED <<clientVars, fan_frame_rate, otherVars, convVars, phonVars, enable_audio,
                   enable_fan_streaming, tu_args, response, tu_gen, tu_audio,
                   tu_result>>

\* _animate_response has returned or raised
TurnAnimated ==
    /\ tu_pc = "animating"
    /\ an_pc \in {"done", "raised"}
    /\ IF an_pc = "done"
         THEN tu_anim' = "ok" /\ tu_pc' = "return" /\ UNCHANGED tu_result
         ELSE /\ tu_anim' = "failed"
              /\ IF TurnCatches(an_error)
                   THEN tu_pc' = "return" /\ UNCHANGED tu_result
                   ELSE tu_pc' = "done" /\ tu_result' = Raised(an_error)
    /\ UNCHANGED <<clientVars, fan_frame_rate, otherVars, animVars, convVars, phonVars,
                   enable_audio, enable_fan_streaming, tu_args, response, tu_gen,
                   tu_audio>>

\* return response
TurnReturn ==
    /\ tu_pc = "return"
    /\ tu_result' = Returned(response)
    /\ tu_pc' = "done"
    /\ UNCHANGED <<clientVars, fan_frame_rate, otherVars, animVars, convVars, phonVars,
                   enable_audio, enable_fan_streaming, tu_args, response, tu_gen,
                   tu_audio, tu_anim>>

(***************************************************************************)
(* PhonemeAnalyzer (audio/phoneme_analyzer.py).  A string is the sequence  *)
(* of its characters; an IPA letter is written by its name.                *)
(***************************************************************************)
\* VISEME_MAP, as the set of its <<key, value>> items
VISEME_MAP ==
    { << <<>>, "NEUTRAL" >>,
      << <<"script_a">>, "AA" >>, << <<"ash">>, "AE" >>,
      << <<"turned_v">>, "AH" >>, << <<"schwa">>, "AH" >>,
      << <<"epsilon">>, "EH" >>, << <<"e", "small_cap_i">>, "EY" >>,
      << <<"i">>, "IY" >>, << <<"small_cap_i">>, "IH" >>,
      << <<"o", "upsilon">>, "OW" >>, << <<"open_o">>, "AO" >>,
      << <<"u">>, "UW" >>, << <<"upsilon">>, "UH" >>,
      << <<"b">>, "B_P" >>, << <<"p">>, "B_P" >>, << <<"m">>, "B_P" >>,
      << <<"f">>, "F_V" >>, << <<"v">>, "F_V" >>,
      << <<"theta">>, "TH" >>, << <<"eth">>, "TH" >>,
      << <<"s">>, "S_Z" >>, << <<"z">>, "S_Z" >>,
      << <<"esh">>, "SH" >>, << <<"ezh">>, "SH" >>,
      << <<"t", "esh">>, "CH" >>, << <<"d", "ezh">>, "CH" >>,
      << <<"t">>, "T_D" >>, << <<"d">>, "T_D" >>, << <<"n">>, "T_D" >>,
      << <<"l">>, "L" >>, << <<"r">>, "R" >>,
      << <<"k">>, "K_G" >>, << <<"g">>, "K_G" >>, << <<"eng">>, "K_G" >>,
      << <<"w">>, "W" >>, << <<"j">>, "Y" >>, << <<"h">>, "H" >> }

VisemeKeys == {e[1] : e \in VISEME_MAP}

\* characters of the phoneme strings of the model ("stress" is the IPA
\* primary stress mark)
PhonChars == {"h", "schwa", "stress", "l", "o", "upsilon", "t", "esh",
              " ", "\n", "\t", "\r"}

\* the phoneme string of the docstrings, for "Hello"
HelloPhonemes == <<"h", "schwa", "stress", "l", "o", "upsilon">>

PhonemeStrings == SeqsUpTo(PhonChars, MaxPhon) \cup {HelloPhonemes}

\* symbols handed to the lookup: keys of one and two characters, the empty
\* string, and strings that are no key
Symbols == VisemeKeys \cup {<<c>> : c \in PhonChars} \cup {<<"h", "h">>}

\* durations handed to analyze_text_for_animation, in 1/100 s
PhonDurations == {-100, 0, 100, 250}

\* a slip: VISEME_MAP[char] instead of VISEME_MAP.get(char, "NEUTRAL")
VisemeMapGetNoDefault(key, default) ==
    IF key \in VisemeKeys
      THEN (CHOOSE e \in VISEME_MAP : e[1] = key)[2]
      ELSE "KeyError"

\* self.VISEME_MAP.get(key, default)
VisemeMapGet(key, default) ==
    IF key \in VisemeKeys
      THEN (CHOOSE e \in VISEME_MAP : e[1] = key)[2]
      ELSE default

\* if char in " \n\t": continue
IsSkipped(char) == char \in {" ", "\n", "\t"}

\* a slip: the loop's `continue` appends a viseme for the skipped character
KeptCharsAll(p) == p

\* the characters of p the loop of phonemes_to_visemes does not skip
KeptChars(p) == SelectSeq(p, LAMBDA char : ~IsSkipped(char))

\* phonemes_to_visemes(phonemes): one lookup per character that is kept
PhonemesToVisemesOf(p) ==
    LET kept == KeptChars(p)
    IN  [j \in 1..Len(kept) |-> VisemeMapGet(<<kept[j]>>, "NEUTRAL")]

\* mouth shapes, weights in tenths
MouthShape(mo, jo) == [mouth_open |-> mo, jaw_open |-> jo]

\* shape_map of get_mouth_shape_for_viseme, as the set of its items
SHAPE_MAP ==
    { <<"NEUTRAL", MouthShape(0, 0)>>, <<"AA", MouthShape(8, 6)>>,
      <<"AE", MouthShape(5, 4)>>, <<"AH", MouthShape(3, 2)>>,
      <<"EH", MouthShape(4, 3)>>, <<"EY", MouthShape(3, 2)>>,
      <<"IY", MouthShape(2, 1)>>, <<"IH", MouthShape(3, 2)>>,
      <<"OW", MouthShape(6, 4)>>, <<"AO", MouthShape(7, 5)>>,
      <<"UW", MouthShape(4, 2)>>, <<"UH", MouthShape(3, 2)>>,
      <<"B_P", MouthShape(0, 0)>>, <<"F_V", MouthShape(2, 1)>>,
      <<"TH", MouthShape(3, 2)>>, <<"S_Z", MouthShape(2, 1)>>,
      <<"SH", MouthShape(3, 2)>>, <<"CH", MouthShape(3, 2)>>,
      <<"T_D", MouthShape(2, 1)>>, <<"L", MouthShape(3, 2)>>,
      <<"R", MouthShape(4, 2)>>, <<"K_G", MouthShape(5, 3)>>,
      <<"W", MouthShape(3, 1)>>, <<"Y", MouthShape(2, 1)>>,
      <<"H", MouthShape(4, 3)>> }

ShapeKeys == {e[1] : e \in SHAPE_MAP}

\* visemes handed to get_mouth_shape_for_viseme; "XX" is no category
VisemeArgs == ShapeKeys \cup {"XX"}

\* get_mouth_shape_for_viseme(viseme)
GetMouthShape(viseme) ==
    IF viseme \in ShapeKeys
      THEN (CHOOSE e \in SHAPE_MAP : e[1] = viseme)[2]
      ELSE MouthShape(0, 0)

\* a point in time, the fraction num / den of 1/100 s
Time(num, den) == [num |-> num, den |-> den]

\* a slip: the keyframes are numbered from 1
KeyframeTimeFromOne(idx, dur, n) == Time((idx + 1) * dur, n)

\* time = i * time_per_viseme, with time_per_viseme = duration / len(visemes)
KeyframeTime(idx, dur, n) == Time(idx * dur, n)

\* the keyframes analyze_text_for_animation builds from the visemes
Keyframes(vs, dur) ==
    IF vs = <<>>
      THEN << [t |-> Time(0, 1), shape |-> MouthShape(0, 0)] >>
      ELSE [j \in 1..Len(vs) |->
              [t |-> KeyframeTime(j - 1, dur, Len(vs)),
               shape |-> GetMouthShape(vs[j])]]

PhonIdle ==
    /\ ph_pc = "off"
    /\ phonemes = <<>>
    /\ visemes = <<>>
    /\ ph_duration = 100
    /\ ph_result = [ok |-> TRUE, keyframes |-> <<>>]
    /\ ph_key = <<>>
    /\ ph_viseme = "NEUTRAL"
    /\ ph_shape = MouthShape(0, 0)

\* the caller invokes phonemes_to_visemes(phonemes)
PhonemesToVisemes ==
    /\ ph_pc = "off"
    /\ \E p \in PhonemeStrings :
         /\ phonemes' = p
         /\ visemes' = PhonemesToVisemesOf(p)
    /\ ph_pc' = "visemes"
    /\ UNCHANGED <<clientVars, fan_frame_rate, otherVars, animVars, convVars, turnVars, ph_duration,
                   ph_result, ph_key, ph_viseme, ph_shape>>

\* the lookup of one symbol: self.VISEME_MAP.get(symbol, "NEUTRAL")
LookupViseme ==
    /\ ph_pc = "off"
    /\ \E sym \in Symbols :
         /\ ph_key' = sym
         /\ ph_viseme' = VisemeMapGet(sym, "NEUTRAL")
    /\ ph_pc' = "lookup"
    /\ UNCHANGED <<clientVars, fan_frame_rate, otherVars, animVars, convVars, turnVars, phonemes,
                   visemes, ph_duration, ph_result, ph_shape>>

\* the caller invokes get_mouth_shape_for_viseme(viseme)
MouthShapeForViseme ==
    /\ ph_pc = "off"
    /\ \E v \in VisemeArgs :
         /\ ph_viseme' = v
         /\ ph_shape' = GetMouthShape(v)
    /\ ph_pc' = "shape"
    /\ UNCHANGED <<clientVars, fan_frame_rate, otherVars, animVars, convVars, turnVars, phonemes,
                   visemes, ph_duration, ph_result, ph_key>>

\* the caller invokes analyze_text_for_animation(text, duration): a blank
\* text has the phoneme string "", for any other text phonemize() returns
\* a phoneme string or fails (PhonemeAnalyzerError)
AnalyzeText ==
    /\ ph_pc = "off"
    /\ \E blank \in BOOLEAN, fails \in BOOLEAN, p \in PhonemeStrings,
          dur \in PhonDurations :
         LET ps == IF blank THEN <<>> ELSE p
             vs == PhonemesToVisemesOf(ps)
         IN  /\ ph_duration' = dur
             /\ IF ~blank /\ fails
                  THEN /\ ph_result' = [ok |-> FALSE, keyframes |-> <<>>]
                       /\ UNCHANGED <<phonemes, visemes>>
                  ELSE /\ phonemes' = ps
                       /\ visemes' = vs
                       /\ ph_result' = [ok |-> TRUE, keyframes |-> Keyframes(vs, dur)]
    /\ ph_pc' = "analyzed"
    /\ UNCHANGED <<clientVars, fan_frame_rate, otherVars, animVars, convVars, turnVars, ph_key,
                   ph_viseme, ph_shape>>

(***************************************************************************)
(* ChatGPTClient (chatbot/gpt_integration.py)                              *)
(***************************************************************************)
Msg(role, content) == [role |-> role, content |-> content]

SystemPrompt == "You are a holographic assistant."
Inputs == {"hi", "bye"}

\* what chat.completions.create can end with: a first choice with a content
\* (possibly empty), no choice at all, or an OpenAIError
ApiOutcomes == {[kind |-> "reply", content |-> c] : c \in {"fine", " fine ", ""}}
               \cup {[kind |-> "no_choices", content |-> ""],
                     [kind |-> "OpenAIError", content |-> ""]}

\* assistant_message.strip()
Strip(str) == IF str = " fine " THEN "fine" ELSE str

\* if response.choices and len(response.choices) > 0: ... if assistant_message:
HasReply(o) == o.kind = "reply" /\ o.content # ""

\* a slip: the user message is taken back when the request fails
HistoryAfterFailureRestored(before, with_user) == before

\* the history a failed call leaves: nothing removes the user message
HistoryAfterFailure(before, with_user) == with_user

ChatNew ==
    /\ conversation_history = <<>>
    /\ gp_pc = "new"
    /\ gp_calls = <<>>
    /\ gp_result = NoResult

\* set_system_prompt(prompt): clear_history() and add_system_message(prompt)
SetSystemPrompt ==
    /\ conversation_history' = Append(<<>>, Msg("system", SystemPrompt))
    /\ gp_pc' = "ready"
    /\ gp_calls' = <<>>
    /\ gp_result' = NoResult
    /\ UNCHANGED <<clientVars, fan_frame_rate, animVars, convVars, phonVars,
                   turnVars, keyVars, modeVars>>

\* get_response(user_input), from add_user_message to its return or raise
GetResponse ==
    /\ Len(gp_calls) < MaxCalls
    /\ \E user_input \in Inputs, o \in ApiOutcomes :
         LET with_user == Append(conversation_history, Msg("user", user_input))
         IN  /\ IF HasReply(o)
                  THEN /\ conversation_history' =
                              Append(with_user, Msg("assistant", o.content))
                       /\ gp_result' = Returned(Strip(o.content))
                  ELSE /\ conversation_history' =
                              HistoryAfterFailure(conversation_history, with_user)
                       /\ gp_result' = Raised("ChatGPTError")
             /\ gp_calls' = Append(gp_calls,
                    [input |-> user_input, ok |-> HasReply(o), reply |-> o.content])
    /\ UNCHANGED <<clientVars, fan_frame_rate, animVars, convVars, phonVars,
                   turnVars, keyVars, modeVars, gp_pc>>

(***************************************************************************)
(* Settings.model_dump_safe (config.py).  A key is the sequence of its     *)
(* characters.                                                             *)
(***************************************************************************)
\* min_length of openai_api_key
MinKeyLen == 20

\* the lengths of the keys of the model: one too short, the others accepted
KeyLens == (MinKeyLen - 1)..(MinKeyLen + MaxKeyExtra)

\* the positions in which the keys of length n differ: around the cuts after
\* the 8th and before the 4th last character, and the two ends
Vary(n) == {1, 8, 9, n - 4, n - 3, n}

\* the keys of length n: "a" or "b" at the positions of Vary(n), "a" elsewhere
KeysOf(n) ==
    {[p \in 1..n |-> IF p \in Vary(n) THEN c[p] ELSE "a"] :
        c \in [Vary(n) -> {"a", "b"}]}

\* Field(..., min_length=20)
Accepted(key) == Len(key) >= MinKeyLen

\* a slip: the first 12 characters are shown
MaskedFirst12(key) ==
    SubSeq(key, 1, 12) \o <<".", ".", ".">> \o SubSeq(key, Len(key) - 3, Len(key))

\* f"{key[:8]}...{key[-4:]}"
Masked(key) ==
    SubSeq(key, 1, 8) \o <<".", ".", ".">> \o SubSeq(key, Len(key) - 3, Len(key))

KeysOff ==
    /\ kd_pc = "off"
    /\ api_key = <<>>
    /\ key_other = <<>>
    /\ masked = <<>>
    /\ masked_other = <<>>

\* Settings(openai_api_key=key).model_dump_safe() for two keys
DumpSafe ==
    /\ kd_pc = "off"
    /\ \E n \in KeyLens, m \in KeyLens :
         \E k1 \in KeysOf(n), k2 \in KeysOf(m) :
            /\ api_key' = k1
            /\ key_other' = k2
            /\ IF Accepted(k1) /\ Accepted(k2)
                 THEN /\ masked' = Masked(k1)
                      /\ masked_other' = Masked(k2)
                      /\ kd_pc' = "dumped"
                 ELSE /\ UNCHANGED <<masked, masked_other>>
                      /\ kd_pc' = "rejected"
    /\ UNCHANGED <<clientVars, fan_frame_rate, animVars, convVars, phonVars,
                   turnVars, chatVars, modeVars>>

\* no interactive session
ModeOff ==
    /\ im_pc = "off"
    /\ im_exit = "none"
    /\ intr = "none"
    /\ im_turns = 0
    /\ cleanups = 0
    /\ renderer_closed = FALSE
    /\ session_closed = FALSE

(***************************************************************************)
(* HolographicChatbot.interactive_mode and cleanup, and an interrupt       *)
(* (KeyboardInterrupt) that arrives while the session sleeps               *)
(***************************************************************************)
\* the interrupt ends time.sleep(0.5 * (attempt + 1)) in the handler of
\* requests.RequestException: no clause of send_frame's try takes it
InterruptBackoff ==
    /\ im_pc = "loop"
    /\ intr = "none"
    /\ sf_pc = "backoff"
    /\ sf_pc' = "ret"
    /\ sf_result' = "KeyboardInterrupt"
    /\ intr' = "backoff"
    /\ UNCHANGED <<frames_sent, ok200, call, result, status_code, sf_frame, sf_idx,
                   retry_count, attempt, ffVars, stVars, tc_pc, elapsed, log>>
    /\ UNCHANGED <<fan_frame_rate, chatVars, keyVars, animVars, convVars, phonVars,
                   turnVars, im_pc, im_exit, im_turns, cleanups, renderer_closed,
                   session_closed>>

\* the interrupt ends time.sleep(sleep_time) in the try of stream_frames
InterruptPace ==
    /\ im_pc = "loop"
    /\ intr = "none"
    /\ st_pc = "pace"
    /\ IF StreamCatches("KeyboardInterrupt")
         THEN st_pc' = "loop" /\ i' = AfterFailure(i, Len(frames)) /\ UNCHANGED result
         ELSE st_pc' = "off" /\ result' = Raised("KeyboardInterrupt") /\ UNCHANGED i
    /\ intr' = "pace"
    /\ UNCHANGED <<frames_sent, ok200, call, status_code, sfVars, ffVars, frames,
                   successful_frames, frame_delay, sleep_time, st_base, tc_pc,
                   elapsed, log>>
    /\ UNCHANGED <<fan_frame_rate, chatVars, keyVars, animVars, convVars, phonVars,
                   turnVars, im_pc, im_exit, im_turns, cleanups, renderer_closed,
                   session_closed>>

\* except KeyboardInterrupt: ... break; except Exception as e: (the loop
\* goes on)
InteractiveBreaks(exc) == exc = "KeyboardInterrupt"

\* finally: self.cleanup(), which closes the renderer and the fan client
Cleanup ==
    /\ cleanups' = cleanups + 1
    /\ renderer_closed' = TRUE
    /\ session_closed' = TRUE
    /\ im_pc' = "exited"

\* the prompt is answered by a text: process_user_input(user_input) is
\* called with its default arguments
InteractiveTurn ==
    /\ im_pc = "loop"
    /\ tu_pc = "off"
    /\ im_turns < MaxTurns
    /\ \E fails \in BOOLEAN : EnterProcessUserInput(TRUE, TRUE, fails)
    /\ im_turns' = im_turns + 1
    /\ UNCHANGED <<clientVars, fan_frame_rate, chatVars, keyVars, animVars, convVars,
                   phonVars, enable_audio, enable_fan_streaming, tu_audio, tu_anim,
                   im_pc, im_exit, intr, cleanups, renderer_closed, session_closed>>

\* the prompt is answered by quit or exit: break, and the finally clause
InteractiveQuit ==
    /\ im_pc = "loop"
    /\ tu_pc = "off"
    /\ im_exit' = "quit"
    /\ Cleanup
    /\ UNCHANGED <<clientVars, fan_frame_rate, chatVars, keyVars, animVars, convVars,
                   phonVars, turnVars, intr, im_turns>>

\* the calls of a finished turn are over: their locals and what was
\* recorded of them are as before the turn, the fields of the objects stay
TurnForgotten ==
    /\ tu_pc' = "off"
    /\ tu_args' = [synthesize_audio |-> TRUE, animate |-> TRUE]
    /\ response' = ""
    /\ tu_gen' = "none" /\ tu_audio' = "none" /\ tu_anim' = "none"
    /\ tu_result' = NoResult
    /\ an_pc' = "off"
    /\ duration' = DefaultDuration
    /\ num_frames' = 0
    /\ an_frames' = <<>> /\ an_i' = 0 /\ an_error' = "none"
    /\ an_streams' = 0 /\ an_streamed' = <<>>
    /\ call' = "none"
    /\ result' = Returned("")
    /\ status_code' = 0
    /\ sf_pc' = "off" /\ sf_frame' = "rgb" /\ sf_idx' = 1
    /\ retry_count' = DefaultRetry /\ attempt' = 0 /\ sf_result' = "none"
    /\ st_pc' = "off" /\ frames' = <<>> /\ i' = 0 /\ successful_frames' = 0
    /\ frame_delay' = 0 /\ sleep_time' = 0 /\ st_base' = 0
    /\ elapsed' = 0
    /\ log' = <<>>
    /\ UNCHANGED <<frames_sent, ok200, ffVars, tc_pc, enable_audio,
                   enable_fan_streaming>>

\* process_user_input has ended: its result is printed and the loop goes
\* on, or its exception meets the handlers of the loop
InteractiveTurnEnds ==
    /\ im_pc = "loop"
    /\ tu_pc = "done"
    /\ IF tu_result.kind = "raise" /\ InteractiveBreaks(tu_result.v)
         THEN /\ im_exit' = "interrupt"
              /\ Cleanup
              /\ UNCHANGED <<clientVars, animVars, turnVars>>
         ELSE /\ TurnForgotten
              /\ UNCHANGED <<im_pc, im_exit, cleanups, renderer_closed,
                             session_closed>>
    /\ UNCHANGED <<fan_frame_rate, chatVars, keyVars, convVars, phonVars, intr,
                   im_turns>>

(***************************************************************************)
(* Initial state: FanAPIClient.__init__                                    *)
(***************************************************************************)
ClientInit ==
    /\ frames_sent = 0
    /\ ok200 = 0
    /\ call = "none"
    /\ result = Returned("")
    /\ status_code = 0
    /\ sf_pc = "off" /\ sf_frame = "rgb" /\ sf_idx = 1 /\ retry_count = DefaultRetry
    /\ attempt = 0 /\ sf_result = "none"
    /\ ff_pc = "off" /\ ff_path = "png" /\ ff_result = "none"
    /\ st_pc = "off" /\ frames = <<>> /\ i = 0 /\ successful_frames = 0
    /\ frame_delay = 0 /\ sleep_time = 0 /\ st_base = 0
    /\ elapsed = 0
    /\ tc_pc = "off"
    /\ log = <<>>

\* the client beside an orchestrator and a converter that are not in use
Init ==
    /\ ClientInit
    /\ fan_frame_rate = DefaultFrameRate
    /\ AnimOff
    /\ target_size = DefaultTarget
    /\ ConvIdle
    /\ PhonIdle
    /\ enable_audio = TRUE
    /\ enable_fan_streaming = TRUE
    /\ TurnOff
    /\ ChatNew
    /\ KeysOff
    /\ ModeOff

Next ==
    \/ CallSendFrame
    \/ SendFrameAttempt
    \/ SendFrameBackoff
    \/ SendFrameReturn
    \/ CallSendFrameFromFile
    \/ SendFrameFromFileBody
    \/ SendFrameFromFileReturn
    \/ CallTestConnection
    \/ TestConnectionReturn
    \/ CallStreamFrames
    \/ StreamSend
    \/ StreamAfterSend
    \/ StreamPace
    \/ StreamReturn

Spec == Init /\ [][Next]_vars

\* the orchestrator under every configured frame rate
InitAnim ==
    /\ ClientInit
    /\ fan_frame_rate \in ConfigRates
    /\ AnimOff
    /\ target_size = DefaultTarget
    /\ ConvIdle
    /\ PhonIdle
    /\ enable_audio = TRUE
    /\ enable_fan_streaming = TRUE
    /\ TurnOff
    /\ ChatNew
    /\ KeysOff
    /\ ModeOff

NextAnim ==
    \/ AnimateResponse
    \/ AnimGenerate
    \/ AnimDeliver

SpecAnim == InitAnim /\ [][NextAnim]_vars

\* size = size or self.target_size
EffectiveSize(size, target) == IF size # <<>> THEN size ELSE target

\* the caller invokes resize_frame(frame, size, maintain_aspect)
Resize ==
    /\ cv_pc = "off"
    /\ \E w \in InDims, h \in InDims, size \in SizeArgs, keep \in BOOLEAN,
          bad \in BOOLEAN :
         LET f == IF bad THEN Malformed ELSE Shape(w, h)
         IN  /\ cv_in' = f
             /\ cv_args' = [sharpen |-> FALSE, size |-> size, maintain_aspect |-> keep,
                             brightness_factor |-> 120, contrast_factor |-> 110]
             /\ cv_out' = ResizeFrame(f, EffectiveSize(size, target_size), keep)
    /\ cv_pc' = "resized"
    /\ UNCHANGED <<clientVars, fan_frame_rate, otherVars, animVars, phonVars, turnVars,
                   target_size, cv_steps, cv_region, cv_first>>

\* the converter under every configured target size
InitConv ==
    /\ ClientInit
    /\ fan_frame_rate = DefaultFrameRate
    /\ AnimOff
    /\ target_size \in Targets
    /\ ConvIdle
    /\ PhonIdle
    /\ enable_audio = TRUE
    /\ enable_fan_streaming = TRUE
    /\ TurnOff
    /\ ChatNew
    /\ KeysOff
    /\ ModeOff

NextConv ==
    \/ Optimize
    \/ OptimizeAgain
    \/ Resize
    \/ Crop

SpecConv == InitConv /\ [][NextConv]_vars

\* one turn of the chatbot, or one session a caller starts, against the
\* device
TurnRates == {1}

InitTurn ==
    /\ ClientInit
    /\ fan_frame_rate \in TurnRates
    /\ AnimOff
    /\ target_size = DefaultTarget
    /\ ConvIdle
    /\ PhonIdle
    /\ enable_audio \in BOOLEAN
    /\ enable_fan_streaming \in BOOLEAN
    /\ TurnOff
    /\ ChatNew
    /\ KeysOff
    /\ ModeOff

NextTurn ==
    \/ ProcessUserInput
    \/ TurnAudio
    \/ TurnAnimate
    \/ TurnAnimated
    \/ TurnReturn
    \/ AnimateResponse
    \/ AnimGenerate
    \/ AnimDeliver
    \/ AnimStreamed
    \/ StreamSend
    \/ SendFrameAttempt
    \/ SendFrameBackoff
    \/ StreamAfterSend
    \/ StreamPace
    \/ StreamReturn

SpecTurn == InitTurn /\ [][NextTurn]_vars

\* the phoneme analyzer
InitPhon == Init

\* an interactive session of the chatbot; the steps of the program are
\* taken eventually, the user and the interrupt are free
InitInteractive ==
    /\ ClientInit
    /\ fan_frame_rate \in TurnRates
    /\ AnimOff
    /\ target_size = DefaultTarget
    /\ ConvIdle
    /\ PhonIdle
    /\ enable_audio = TRUE
    /\ enable_fan_streaming = TRUE
    /\ TurnOff
    /\ ChatNew
    /\ KeysOff
    /\ im_pc = "loop"
    /\ im_exit = "none"
    /\ intr = "none"
    /\ im_turns = 0
    /\ cleanups = 0
    /\ renderer_closed = FALSE
    /\ session_closed = FALSE

RunInteractive ==
    \/ InteractiveTurnEnds
    \/ TurnAudio
    \/ TurnAnimate
    \/ TurnAnimated
    \/ TurnReturn
    \/ AnimGenerate
    \/ AnimDeliver
    \/ AnimStreamed
    \/ StreamSend
    \/ SendFrameAttempt
    \/ SendFrameBackoff
    \/ StreamAfterSend
    \/ StreamPace
    \/ StreamReturn

NextInteractive ==
    \/ InteractiveTurn
    \/ InteractiveQuit
    \/ InterruptBackoff
    \/ InterruptPace
    \/ RunInteractive

SpecInteractive ==
    InitInteractive /\ [][NextInteractive]_vars /\ WF_vars(RunInteractive)

\* the ChatGPT client
InitChat == Init

NextChat ==
    \/ SetSystemPrompt
    \/ GetResponse

SpecChat == InitChat /\ [][NextChat]_vars

\* the settings
InitKeys == Init

NextKeys == DumpSafe

SpecKeys == InitKeys /\ [][NextKeys]_vars

NextPhon ==
    \/ PhonemesToVisemes
    \/ LookupViseme
    \/ MouthShapeForViseme
    \/ AnalyzeText

SpecPhon == InitPhon /\ [][NextPhon]_vars

\* the running call always makes its next step: the client is sequential
\* code, no step of it waits for anything but the device's answer
Run ==
    \/ SendFrameAttempt
    \/ SendFrameBackoff
    \/ SendFrameReturn
    \/ SendFrameFromFileBody
    \/ SendFrameFromFileReturn
    \/ TestConnectionReturn
    \/ StreamSend
    \/ StreamAfterSend
    \/ StreamPace
    \/ StreamReturn

FairSpec == Spec /\ WF_vars(Run)

(***************************************************************************)
(* Properties                                                              *)
(***************************************************************************)
IsCallEvent(ev) == ev.e = "call"

\* the positions of the history that are requests for frame f
PostsOf(f) == {p \in 1..Len(log) : log[p].e = "post" /\ log[p].frame = f}

\* the frames of the streamed list that a request answered 200 was made for
Delivered == {f \in 1..Len(frames) : \E p \in PostsOf(f) : log[p].r = "200"}

Streaming == call = "stream_frames" /\ result.kind = "none"
StreamReturned == call = "stream_frames" /\ result.kind = "return"

\* C1: stream_frames calls send_frame for the frames in list order, each
\* once; a frame that fails does not end the loop, and the count returned
\* is the number of frames that were delivered.
C1_StreamAttemptsAllInOrder ==
    call = "stream_frames" =>
        LET calls == SelectSeq(log, IsCallEvent)
        IN  /\ \A j \in 1..Len(calls) : calls[j].frame = j
            /\ Len(calls) <= Len(frames)
            /\ StreamReturned =>
                 /\ Len(calls) = Len(frames)
                 /\ result.n = Cardinality(Delivered)

\* a stream of two frames: the first failed on three requests, the second
\* was delivered, and 1 was returned
C1_Witness ==
    /\ StreamReturned
    /\ Len(frames) = 2
    /\ Cardinality(PostsOf(1)) = DefaultRetry
    /\ Delivered = {2}
    /\ result.n = 1

\* C2: send_frame never issues more than retry_count requests; when the
\* frame can be serialized and no request was answered 200, it ends after
\* exactly retry_count requests, with FanAPIError.
C2_BoundedRetry ==
    sf_pc # "off" =>
        /\ Cardinality(PostsOf(sf_idx)) <= Max(retry_count, 0)
        /\ ( /\ sf_pc = "ret"
             /\ retry_count >= 1
             /\ Serializable(sf_frame)
             /\ \A p \in PostsOf(sf_idx) : log[p].r # "200" )
           => /\ Cardinality(PostsOf(sf_idx)) = retry_count
              /\ sf_result = "FanAPIError"

\* send_frame with retry_count 4 ended in FanAPIError after four requests,
\* some answered by a status other than 200 and some met by a network fault
C2_Witness ==
    /\ call = "send_frame"
    /\ sf_pc = "ret"
    /\ retry_count = 4
    /\ sf_result = "FanAPIError"
    /\ Cardinality(PostsOf(1)) = 4
    /\ \E p \in PostsOf(1) : log[p].r = "non200"
    /\ \E p \in PostsOf(1) : log[p].r = "fault"

\* C3: every request after the first one of a frame comes right after a
\* backoff sleep of 0.5 s x k, k the number of the failed attempt before
\* it, whatever that attempt failed by.
C3_BackoffBetweenAttempts ==
    \A p \in 1..Len(log) :
        (log[p].e = "post" /\ log[p].k > 1) =>
            /\ p > 1
            /\ log[p - 1] = Event("backoff", log[p].frame, log[p].k - 1, "",
                                  BackoffStep * (log[p].k - 1))

\* C4: in stream_frames, the end of every frame's send_frame, whether it
\* returned or raised, is followed by the pacing sleep of
\* max(0, frame_delay - elapsed) before anything else happens.
C4_PacingAfterEveryFrame ==
    call = "stream_frames" =>
        \A p \in 1..Len(log) :
            (log[p].e \in {"sent", "failed"} /\ frame_delay - log[p].t > 0) =>
                IF p < Len(log)
                  THEN log[p + 1] = Event("pace", log[p].frame, 0, "",
                                          frame_delay - log[p].t)
                  ELSE st_pc = "pace"

\* C5: send_frame ends with True exactly when one of its requests was
\* answered with status 200, and the request answered 200 is the last one
\* made for the frame.
C5_SuccessIffStatus200 ==
    /\ sf_pc = "ret" =>
         (sf_result = "True" <=> \E p \in PostsOf(sf_idx) : log[p].r = "200")
    /\ sf_pc \in {"loop", "backoff"} =>
         \A p \in PostsOf(sf_idx) : log[p].r # "200"
    /\ \A p \in 1..Len(log) :
         (log[p].e = "post" /\ log[p].r = "200") =>
             \A q \in PostsOf(log[p].frame) : q <= p

\* send_frame got a 201 answer and went on with the next attempt
C5_Witness ==
    /\ call = "send_frame"
    /\ sf_pc = "loop"
    /\ status_code = 201
    /\ attempt = 1
    /\ Cardinality(PostsOf(1)) = 1

\* C6: stream_frames never ends in an exception, and every call of it
\* ends by returning a count.
C6_StreamAlwaysReturns ==
    /\ [](call = "stream_frames" => result.kind # "raise")
    /\ (Streaming ~> StreamReturned)

\* a stream of a frame that cannot be serialized and a frame whose requests
\* met a network fault and a status other than 200 returned 0
C6_Witness ==
    /\ StreamReturned
    /\ result.n = 0
    /\ frames = <<"malformed", "rgb">>
    /\ \E p \in PostsOf(2) : log[p].r = "fault"
    /\ \E p \in PostsOf(2) : log[p].r = "non200"

\* C7: frames_sent starts at 0, never decreases, and always equals the
\* number of requests that were answered with status 200.
C7_FramesSentCounts200 ==
    /\ frames_sent = 0
    /\ [](frames_sent = ok200)
    /\ [][frames_sent' >= frames_sent]_vars

\* after a frame was counted, send_frame_from_file got an answer other than
\* 200 and returned False
C7_Witness ==
    /\ frames_sent >= 1
    /\ call = "send_frame_from_file"
    /\ result = Returned("False")
    /\ status_code = 500

\* C8: test_connection ends by returning True or False, never by raising.
C8_TestConnectionNeverRaises ==
    call = "test_connection" => result.kind # "raise"

\* round() of the quotient n / d of naturals: to the nearest integer, a
\* half to the even neighbour
RoundOf(n, d) ==
    LET f == n \div d
        r == n % d
    IN  IF 2 * r < d THEN f
        ELSE IF 2 * r > d THEN f + 1
        ELSE IF f % 2 = 0 THEN f ELSE f + 1

\* C9: the number of frames _animate_response generates is
\* round(frame_rate x duration).
C9_FrameCountIsRounded ==
    an_pc # "off" => num_frames = RoundOf(fan_frame_rate * duration, 100)

\* C10: a frame optimize_for_display returns has exactly the configured
\* target width and height.
C10_OutputHasTargetSize ==
    (cv_pc = "done" /\ cv_out.ok) =>
        cv_out.frame = Shape(target_size[1], target_size[2])

\* C20: resize_frame with maintain_aspect=False returns a frame of exactly
\* the requested width and height (the configured target size when no size
\* is given) and 3 channels, whatever the resolution of the input.
C20_ResizeExact ==
    (cv_pc = "resized" /\ ~cv_args.maintain_aspect /\ cv_in # Malformed) =>
        LET size == IF cv_args.size # <<>> THEN cv_args.size ELSE target_size
        IN  /\ cv_out.ok
            /\ cv_out.frame.w = size[1]
            /\ cv_out.frame.h = size[2]
            /\ cv_out.frame.c = 3

\* a 300 x 100 frame was resized to 64 x 32 without keeping its ratio
C20_Witness ==
    /\ cv_pc = "resized"
    /\ ~cv_args.maintain_aspect
    /\ cv_args.size = <<64, 32>>
    /\ cv_in = Shape(300, 100)
    /\ cv_out = Frame(Shape(64, 32))

(***************************************************************************)
(* PhonemeAnalyzer: claims C15 .. C19                                      *)
(***************************************************************************)
\* C15: analyze_text_for_animation rejects a negative duration as invalid
\* input instead of returning a timeline.
C15_NegativeDurationRejected ==
    (ph_pc = "analyzed" /\ ph_duration < 0) => ~ph_result.ok

\* C16: phonemes_to_visemes maps every phoneme of its input to that phoneme's
\* VISEME_MAP entry, the two-character phonemes of the table included, so
\* that the phoneme string of "Hello" yields the visemes H, AH, L, OW.
C16_EveryPhonemeMapped ==
    ph_pc = "visemes" =>
        /\ \A e \in VISEME_MAP :
             (e[1] # <<>> /\ phonemes = e[1]) => visemes = <<e[2]>>
        /\ phonemes = HelloPhonemes => visemes = <<"H", "AH", "L", "OW">>

\* C17: for every viseme sequence V and duration d >= 0 the timeline has
\* len(V) keyframes (one keyframe at t = 0 with the all-zero mouth shape when
\* V is empty), the first timestamp is 0, keyframe i has timestamp
\* i * d / len(V), so timestamps never decrease and are evenly spaced, and
\* keyframe i carries the mouth shape of V[i] (all-zero for a viseme outside
\* the table).
C17_TimelineEvenlySpaced ==
    /\ (ph_pc = "analyzed" /\ ph_result.ok /\ ph_duration >= 0) =>
         LET K == ph_result.keyframes
             n == Len(visemes)
         IN  IF n = 0
               THEN K = << [t |-> Time(0, 1), shape |-> MouthShape(0, 0)] >>
               ELSE /\ Len(K) = n
                    /\ K[1].t.num = 0
                    /\ \A j \in 1..n :
                         /\ K[j].t.den > 0
                         /\ K[j].t.num * n = (j - 1) * ph_duration * K[j].t.den
                         /\ j > 1 => K[j - 1].t.num * K[j].t.den
                                        <= K[j].t.num * K[j - 1].t.den
                         /\ visemes[j] \in ShapeKeys
                              => <<visemes[j], K[j].shape>> \in SHAPE_MAP
                         /\ visemes[j] \notin ShapeKeys
                              => K[j].shape = MouthShape(0, 0)
    /\ (ph_pc = "shape" /\ ph_viseme \notin ShapeKeys) =>
         ph_shape = MouthShape(0, 0)
    /\ (ph_pc = "shape" /\ ph_viseme \in ShapeKeys) =>
         <<ph_viseme, ph_shape>> \in SHAPE_MAP

\* "Hello" analyzed over 2.5 s: six keyframes, the second at 2.5 / 6 s
C17_Witness ==
    /\ ph_pc = "analyzed"
    /\ ph_result.ok
    /\ ph_duration = 250
    /\ phonemes = HelloPhonemes
    /\ Len(ph_result.keyframes) = 6
    /\ ph_result.keyframes[2] = [t |-> Time(250, 6), shape |-> MouthShape(3, 2)]

\* C18: the symbol-to-viseme lookup is total: it never fails, and every
\* symbol that is not a key of the table, like the empty string, maps to
\* NEUTRAL.
C18_LookupTotal ==
    /\ ph_pc = "lookup" =>
         /\ ph_viseme \in {e[2] : e \in VISEME_MAP}
         /\ (ph_key \notin VisemeKeys \/ ph_key = <<>>) => ph_viseme = "NEUTRAL"
    /\ ph_pc = "visemes" =>
         \A j \in 1..Len(visemes) : visemes[j] \in {e[2] : e \in VISEME_MAP}

\* the stress mark, no key of the table, was looked up
C18_Witness ==
    /\ ph_pc = "lookup"
    /\ ph_key = <<"stress">>
    /\ ph_viseme = "NEUTRAL"

\* whitespace characters of the phoneme strings of the model
IsWhitespace(char) == char \in {" ", "\n", "\t", "\r"}

\* C19 as stated: phonemes_to_visemes skips every whitespace symbol and maps
\* every other symbol to one viseme, so the output length is the number of
\* non-whitespace symbols of S and at most length(S).
C19_SkipsWhitespace ==
    ph_pc = "visemes" =>
        /\ Len(visemes) =
             Cardinality({j \in 1..Len(phonemes) : ~IsWhitespace(phonemes[j])})
        /\ Len(visemes) <= Len(phonemes)

\* C19 as amended: phonemes_to_visemes skips every space, newline and tab
\* and maps every other symbol (other whitespace such as a carriage return
\* included) to exactly one viseme in the same order, so the output length
\* is the number of symbols of S other than space, newline and tab and at
\* most length(S).
C19_SkipsSpaceNewlineTab ==
    ph_pc = "visemes" =>
        LET kept == {j \in 1..Len(phonemes) : phonemes[j] \notin {" ", "\n", "\t"}}
        IN  /\ Len(visemes) = Cardinality(kept)
            /\ Len(visemes) <= Len(phonemes)
            /\ \A j \in kept :
                 visemes[Cardinality({k \in kept : k <= j})] =
                     VisemeMapGet(<<phonemes[j]>>, "NEUTRAL")

\* "h", a space and a carriage return gave two visemes
C19_Witness ==
    /\ ph_pc = "visemes"
    /\ phonemes = <<"h", " ", "\r">>
    /\ visemes = <<"H", "NEUTRAL">>

(***************************************************************************)
(* The orchestrator and the turn: claims C11 .. C14                        *)
(***************************************************************************)
GenErrors == {"RendererError", "FrameConverterError"}

\* C11 as stated: generation and delivery are sequential phases: no upload
\* request is issued before the last frame has been rendered and processed,
\* and a session that returns has invoked stream_frames exactly once, over
\* the full buffer holding the frames in generation order.
C11_StreamInvokedExactlyOnce ==
    /\ an_pc = "generate" => (an_streams = 0 /\ st_pc = "off" /\ log = <<>>)
    /\ an_pc = "done" =>
         /\ Len(an_frames) = num_frames
         /\ an_streams = 1
         /\ an_streamed = an_frames

\* C11 as amended: no upload request is issued before the last of the
\* frameCount frames has been rendered and processed; stream_frames is
\* invoked exactly once if frameCount >= 1, over the full buffer holding the
\* frames in generation order, and not at all if frameCount = 0.
C11_StreamInvokedOnceIfFrames ==
    /\ an_pc = "generate" => (an_streams = 0 /\ st_pc = "off" /\ log = <<>>)
    /\ an_pc \in {"stream", "done"} =>
         /\ Len(an_frames) = num_frames
         /\ IF num_frames >= 1
              THEN /\ an_streams = 1
                   /\ an_streamed = an_frames
                   /\ Len(frames) = num_frames
                   /\ \A j \in 1..Len(an_streamed) :
                        an_streamed[j].angle.num * num_frames =
                            360 * (j - 1) * an_streamed[j].angle.den
                   /\ \A j \in 1..Len(log) : log[j].frame \in 1..num_frames
              ELSE /\ an_streams = 0
                   /\ an_streamed = <<>>
                   /\ log = <<>>

\* a session of three frames was streamed and returned; one frame failed
C11_Witness ==
    /\ an_pc = "done"
    /\ num_frames = 3
    /\ an_streams = 1
    /\ Len(an_streamed) = 3
    /\ successful_frames = 2

\* C12: if rendering or processing of frame i fails, generation stops at
\* frame i, no frame of the session is uploaded, and the error leaves
\* _animate_response and reaches process_user_input.
C12_GenerationErrorIsFatal ==
    /\ an_error \in GenErrors =>
         /\ an_pc = "raised"
         /\ an_i < num_frames
         /\ Len(an_frames) = an_i
         /\ an_streams = 0
         /\ st_pc = "off"
         /\ log = <<>>
    /\ (an_error \in GenErrors /\ tu_pc \in {"return", "done"}) =>
         tu_anim = "failed"

\* the second frame of a turn's session could not be processed
C12_Witness ==
    /\ an_pc = "raised"
    /\ an_error = "FrameConverterError"
    /\ an_i = 1
    /\ Len(an_frames) = 1
    /\ tu_pc = "return"
    /\ tu_anim = "failed"

\* C13: process_user_input always returns a response string and never
\* propagates an exception of the response generator, of audio synthesis or
\* of the animation: a generator failure yields the apology string, and a
\* failed animation prevents neither the audio synthesis of the turn nor the
\* return of the text.
C13_TurnAlwaysReturnsText ==
    /\ tu_result.kind # "raise"
    /\ tu_pc = "done" =>
         /\ tu_result.kind = "return"
         /\ tu_result.v = response
         /\ tu_result.v \in {ResponseText, Apology}
         /\ tu_gen = "failed" => tu_result.v = Apology
         /\ tu_gen = "ok" => tu_result.v = ResponseText
         /\ (tu_args.synthesize_audio /\ enable_audio) => tu_audio \in {"ok", "failed"}
         /\ (tu_args.animate /\ enable_fan_streaming) => tu_anim \in {"ok", "failed"}

\* a turn in which the generator, the synthesis and the animation all failed
C13_Witness ==
    /\ tu_pc = "done"
    /\ tu_gen = "failed"
    /\ tu_audio = "failed"
    /\ tu_anim = "failed"
    /\ an_error = "RendererError"
    /\ tu_result = Returned(Apology)

\* C14: frame i of a session is rendered at angle (360 / frameCount) x i:
\* the angles start at 0, increase strictly, stay below 360 and are evenly
\* spaced; frame rate 10 and duration 1.0 give exactly 10 frames at 0, 36,
\* ..., 324 degrees; every frame went through optimize_for_display before
\* delivery.
C14_AnglesEvenlySpaced ==
    /\ \A j \in 1..Len(an_frames) :
         LET a == an_frames[j].angle
         IN  /\ a.den > 0
             /\ a.num * num_frames = 360 * (j - 1) * a.den
             /\ a.num >= 0 /\ a.num < 360 * a.den
             /\ j = 1 => a.num = 0
             /\ j > 1 =>
                  LET b == an_frames[j - 1].angle
                  IN  /\ b.num * a.den < a.num * b.den
                      /\ (a.num * b.den - b.num * a.den) * num_frames
                             = 360 * a.den * b.den
             /\ an_frames[j].frame # Rendered
             /\ an_frames[j].frame.w <= target_size[1]
             /\ an_frames[j].frame.h <= target_size[2]
    /\ an_pc \in {"stream", "done"} =>
         /\ Len(an_frames) = num_frames
         /\ an_streamed = an_frames
    /\ (an_pc \in {"stream", "done"} /\ fan_frame_rate = 10 /\ duration = 100) =>
         /\ Len(an_frames) = 10
         /\ \A j \in 1..Len(an_frames) :
              an_frames[j].angle.num = 36 * (j - 1) * an_frames[j].angle.den

\* frame rate 10, duration 1.0: ten frames, the last at 324 degrees
C14_Witness ==
    /\ an_pc = "stream"
    /\ fan_frame_rate = 10
    /\ duration = 100
    /\ Len(an_frames) = 10
    /\ an_frames[10].angle = [num |-> 3240, den |-> 10]
    /\ an_frames[10].frame = Shape(256, 256)

(***************************************************************************)
(* FrameConverter: claims C21 .. C24                                       *)
(***************************************************************************)
\* C21: resize_frame with maintain_aspect=True returns a frame whose width
\* and height are each at most the target size's, with the aspect ratio of
\* the input kept up to the rounding to whole pixels, and 3 channels.
C21_ThumbnailFitsKeepingRatio ==
    (cv_pc = "resized" /\ cv_args.maintain_aspect /\ cv_in # Malformed) =>
        LET size == IF cv_args.size # <<>> THEN cv_args.size ELSE target_size
            o == cv_out.frame
            skew == Abs(o.w * cv_in.h - o.h * cv_in.w)
        IN  /\ cv_out.ok
            /\ o.w >= 1 /\ o.w <= size[1]
            /\ o.h >= 1 /\ o.h <= size[2]
            /\ o.c = 3
            /\ skew < cv_in.h \/ skew < cv_in.w

\* a 300 x 100 frame fitted into 64 x 32 is 64 x 21: less high than the target
C21_Witness ==
    /\ cv_pc = "resized"
    /\ cv_args.maintain_aspect
    /\ cv_args.size = <<64, 32>>
    /\ cv_in = Shape(300, 100)
    /\ cv_out = Frame(Shape(64, 21))

\* C22: crop_to_square on an (h, w) frame returns the centered
\* min(h, w) x min(h, w) region, at offsets (h - min) // 2 and
\* (w - min) // 2, with 3 channels; a square frame is returned unchanged.
C22_CropCentered ==
    (cv_pc = "cropped" /\ cv_in # Malformed) =>
        LET m == IF cv_in.h <= cv_in.w THEN cv_in.h ELSE cv_in.w
            left == cv_region.x_start
            top == cv_region.y_start
            right == cv_in.w - m - left
            bottom == cv_in.h - m - top
        IN  /\ cv_out.ok
            /\ cv_out.frame.w = m /\ cv_out.frame.h = m /\ cv_out.frame.c = 3
            /\ top = (cv_in.h - m) \div 2
            /\ left = (cv_in.w - m) \div 2
            /\ left >= 0 /\ right \in {left, left + 1}
            /\ top >= 0 /\ bottom \in {top, top + 1}
            /\ cv_in.w = cv_in.h =>
                 (cv_out.frame = cv_in /\ left = 0 /\ top = 0)

\* the frame of the test: 600 wide, 400 high, cut to the middle 400 x 400
C22_Witness ==
    /\ cv_pc = "cropped"
    /\ cv_in = Shape(600, 400)
    /\ cv_out = Frame(Shape(400, 400))
    /\ cv_region = [x_start |-> 100, y_start |-> 0]

\* the names of the steps of a trace
OpsOf(tr) == [k \in 1..Len(tr) |-> tr[k].op]

\* C23: optimize_for_display runs resize, brightness, contrast, sharpen in
\* this order (sharpen only when requested), each step on the output of the
\* step before; a step that fails ends the call with FrameConverterError
\* and no frame.
C23_PipelineOrder ==
    cv_pc = "done" =>
        LET order == <<"resize", "brightness", "contrast">> \o
                       (IF cv_args.sharpen THEN <<"sharpen">> ELSE <<>>)
            n == Len(cv_steps)
        IN  /\ n >= 1 /\ n <= Len(order)
            /\ OpsOf(cv_steps) = SubSeq(order, 1, n)
            /\ cv_steps[1].in = cv_in
            /\ \A k \in 2..n :
                 /\ cv_steps[k - 1].out.ok
                 /\ cv_steps[k].in = cv_steps[k - 1].out.frame
            /\ cv_out.ok <=> (n = Len(order) /\ cv_steps[n].out.ok)
            /\ cv_out.ok => cv_out = cv_steps[n].out
            /\ ~cv_out.ok => (~cv_steps[n].out.ok /\ cv_out = ConvError)

\* all four steps ran on a 300 x 100 frame
C23_Witness ==
    /\ cv_pc = "done"
    /\ cv_args.sharpen
    /\ cv_in = Shape(300, 100)
    /\ target_size = <<128, 256>>
    /\ OpsOf(cv_steps) = <<"resize", "brightness", "contrast", "sharpen">>
    /\ cv_steps[2].in = Shape(128, 43)
    /\ cv_out = Frame(Shape(128, 43))

\* the contrast step of a call failed
C23_FailureReached ==
    /\ cv_pc = "done"
    /\ OpsOf(cv_steps) = <<"resize", "brightness", "contrast">>
    /\ cv_args.sharpen
    /\ cv_out = ConvError

\* C24: optimize_for_display applied to its own output, with brightness
\* and contrast factor 1.0 and sharpen=False, returns that frame again: the
\* same resolution, no step alters the pixels.
C24_OptimizeIdempotent ==
    (/\ cv_pc = "again"
     /\ cv_args.brightness_factor = 100
     /\ cv_args.contrast_factor = 100
     /\ ~cv_args.sharpen) =>
        /\ cv_out.ok
        /\ cv_out = cv_first
        /\ Len(cv_steps) = 3
        /\ \A k \in 1..Len(cv_steps) : ~cv_steps[k].changed

\* a second pass over the 128 x 43 frame the first pass returned
C24_Witness ==
    /\ cv_pc = "again"
    /\ cv_args.brightness_factor = 100
    /\ cv_args.contrast_factor = 100
    /\ ~cv_args.sharpen
    /\ target_size = <<128, 256>>
    /\ cv_first = Frame(Shape(128, 43))
    /\ cv_out = Frame(Shape(128, 43))

AllPosts == {p \in 1..Len(log) : log[p].e = "post"}

\* C28: the count stream_frames returns is the increase of frames_sent
\* during the call and lies between 0 and len(frames); the call issues at
\* most 3 x len(frames) upload requests.
C28_CountIsIncreaseOfFramesSent ==
    /\ call = "stream_frames" => Cardinality(AllPosts) <= 3 * Len(frames)
    /\ (call = "stream_frames" /\ st_pc # "send") =>
         successful_frames = frames_sent - st_base
    /\ StreamReturned =>
         /\ result.n = frames_sent - st_base
         /\ result.n >= 0
         /\ result.n <= Len(frames)

\* a stream of two frames, started after one frame had been sent, delivered
\* one of them
C28_Witness ==
    /\ StreamReturned
    /\ st_base = 1
    /\ Len(frames) = 2
    /\ result = ReturnedInt(1)
    /\ frames_sent = 2

\* C29: a session whose frame rate x duration is below 1 has 0 frames: it
\* calls neither the renderer nor stream_frames and ends without error; and
\* stream_frames entered without a frame rate uses the configured rate
\* (1..60), so the frame delay is never a division by zero.
C29_NoDivisionByZero ==
    /\ fan_frame_rate \in 1..60
    /\ (an_pc # "off" /\ fan_frame_rate * duration < 100) => num_frames = 0
    /\ (an_pc # "off" /\ num_frames = 0) =>
         /\ an_pc \in {"generate", "done"}
         /\ an_i = 0
         /\ an_frames = <<>>
         /\ an_streams = 0
         /\ an_error = "none"
         /\ call # "stream_frames"
    /\ call = "stream_frames" =>
         /\ frame_delay # ZeroDivision
         /\ frame_delay * fan_frame_rate <= 60
         /\ (frame_delay + 1) * fan_frame_rate > 60
         /\ result # Raised("ZeroDivisionError")

\* frame rate 19 and duration 0.05 s: no frame, the session is over
C29_Witness ==
    /\ an_pc = "done"
    /\ fan_frame_rate = 19
    /\ duration = 5
    /\ num_frames = 0
    /\ an_error = "none"

\* a session handed its frames to stream_frames at the configured rate 60
C29_StreamEntered ==
    /\ an_pc = "stream"
    /\ call = "stream_frames"
    /\ fan_frame_rate = 60
    /\ frame_delay = 1

(***************************************************************************)
(* C26: for every API key that Settings accepts (20 characters or more),   *)
(* model_dump_safe puts in place of the key its first 8 characters, "..."  *)
(* and its last 4 characters: 15 characters, never the key itself, and     *)
(* the same value for any two keys that agree on those 12 characters, so   *)
(* that no other character of the key shows in it.                         *)
(***************************************************************************)
Shown(key) == <<SubSeq(key, 1, 8), SubSeq(key, Len(key) - 3, Len(key))>>

C26_KeyIsMasked ==
    kd_pc = "dumped" =>
        /\ Accepted(api_key)
        /\ Len(masked) = 15
        /\ \A p \in 1..8 : masked[p] = api_key[p]
        /\ \A p \in 9..11 : masked[p] = "."
        /\ \A p \in 1..4 : masked[11 + p] = api_key[Len(api_key) - 4 + p]
        /\ masked # api_key
        /\ Shown(api_key) = Shown(key_other) => masked = masked_other

\* two accepted keys of different lengths that differ only in hidden
\* characters have been masked
C26_Witness ==
    /\ kd_pc = "dumped"
    /\ Len(api_key) = MinKeyLen
    /\ Len(key_other) = MinKeyLen + 1
    /\ api_key[9] # key_other[9]
    /\ Shown(api_key) = Shown(key_other)
    /\ masked = <<"b", "a", "a", "a", "a", "a", "a", "b", ".", ".", ".",
                  "a", "a", "a", "b">>

(***************************************************************************)
(* C30: get_response appends the user message before the request; a       *)
(* successful call adds the assistant's message after it, a failed call    *)
(* leaves the user message in place.  After any calls following            *)
(* set_system_prompt the history is the system message followed by every   *)
(* user input in call order, each successful one immediately followed by   *)
(* its reply.                                                              *)
(***************************************************************************)
RECURSIVE Exchanges(_)
Exchanges(calls) ==
    IF calls = <<>> THEN <<>>
    ELSE LET c == Head(calls)
         IN  <<Msg("user", c.input)>>
             \o (IF c.ok THEN <<Msg("assistant", c.reply)>> ELSE <<>>)
             \o Exchanges(Tail(calls))

C30_HistoryKeepsEveryUserMessage ==
    gp_pc = "ready" =>
        conversation_history =
            <<Msg("system", SystemPrompt)>> \o Exchanges(gp_calls)

\* a failed call followed by a successful one
C30_Witness ==
    /\ gp_pc = "ready"
    /\ Len(gp_calls) = 2
    /\ ~gp_calls[1].ok
    /\ gp_calls[2].ok
    /\ conversation_history =
         <<Msg("system", SystemPrompt), Msg("user", "hi"), Msg("user", "bye"),
           Msg("assistant", " fine ")>>
    /\ gp_result = Returned("fine")

(***************************************************************************)
(* C25: an interrupt that arrives in a retry backoff sleep or in an        *)
(* inter-frame pacing sleep is swallowed neither by send_frame nor by      *)
(* stream_frames nor by process_user_input: the sleep ends, no more time   *)
(* goes to requests or sleeps, the interrupt reaches interactive_mode,     *)
(* which leaves its loop and runs cleanup, closing the renderer and the    *)
(* fan session, exactly once.                                              *)
(***************************************************************************)
Interrupted == intr # "none"

C25_InterruptPropagates ==
    /\ [](Interrupted =>
            /\ sf_pc \in {"ret", "off"}
            /\ sf_pc = "ret" => sf_result = "KeyboardInterrupt"
            /\ st_pc \in {"send", "off"}
            /\ st_pc = "off" => result = Raised("KeyboardInterrupt")
            /\ an_pc \in {"stream", "raised"}
            /\ an_pc = "raised" => an_error = "KeyboardInterrupt"
            /\ tu_pc \in {"animating", "done"}
            /\ tu_pc = "done" => tu_result = Raised("KeyboardInterrupt")
            /\ im_pc = "exited" => im_exit = "interrupt")
    /\ [](IF im_pc = "exited"
            THEN cleanups = 1 /\ renderer_closed /\ session_closed
            ELSE cleanups = 0 /\ ~renderer_closed /\ ~session_closed)
    /\ [][Interrupted => elapsed' = elapsed /\ frames_sent' = frames_sent]_vars
    /\ (Interrupted ~> im_pc = "exited")

\* the session was left by an interrupt that arrived in a backoff sleep
C25_Witness ==
    /\ intr = "backoff"
    /\ im_pc = "exited"
    /\ im_exit = "interrupt"
    /\ cleanups = 1
    /\ renderer_closed
    /\ session_closed
    /\ tu_result = Raised("KeyboardInterrupt")

\* the session was left by an interrupt that arrived in a pacing sleep
C25_PaceInterrupted ==
    /\ intr = "pace"
    /\ im_pc = "exited"
    /\ im_exit = "interrupt"
    /\ cleanups = 1
    /\ frames_sent > 0

====
